---- MODULE Spec2Model ----
(***************************************************************************)
(* A state-machine model of the goguard gateway: the audit/alert logger,   *)
(* the spending ledger (repository-backed tracker and in-memory engine),   *)
(* the policy evaluator and the guard pipeline.                            *)
(***************************************************************************)
EXTENDS Integers, Sequences, FiniteSets, TLC

\* ------------------------------------------------------------------------
\* Bounds of the model
\* ------------------------------------------------------------------------
\* capacity N of the audit ring used in the model (NewLogger's maxLogs)
MaxLogs == 2
\* number of Logger.Log calls explored
MaxLogCalls == 4
\* number of alerts created
MaxAlerts == 2
\* number of AckAlert calls explored
MaxAcks == 2
\* largest value of the wall clock
MaxTime == 2
\* number of spending limits created through the control plane
MaxLimits == 2
\* Engine.RecordSpending is explored while no limit goes above this spend
MaxSpend == 1000
MaxPolicies == 1
MaxEvalPolicies == 3
MaxMessages == 2
MaxDetections == 3
MaxUpdates == 2
MaxRules == 3
MaxThreadCalls == 2
MaxChunks == 3

Min(a, b) == IF a < b THEN a ELSE b
Max(a, b) == IF a > b THEN a ELSE b

\* ------------------------------------------------------------------------
\* State
\* ------------------------------------------------------------------------
VARIABLES
    logs,        \* Logger.logs: the audit ring
    alerts,      \* Logger.alerts
    appended,    \* history: every entry handed to Logger.Log, in lock order
    acks,        \* history: number of AckAlert calls made
    uuidCtr,     \* source of uuid.New(): the last id handed out
    now,         \* time.Now()
    lg,          \* Logger.mu and the goroutines inside Logger.Log and Logger.Query
    hasRepo,     \* whether a database repository is attached (router.go: repo[0] != nil)
    repoLimits,  \* the rows of table spending_limits, in insertion order
    engineLimits,\* Engine.spendingLimits: the in-memory map, id -> limit
    trk,         \* the RecordUsage call of each tracker thread
    ledger,      \* history: id of a row -> the spend it was inserted with plus every cost recorded on it
    crossings,   \* history: number of recorded usages that took a limit across its alert threshold
    policies,    \* Engine.policies: id -> policy
    users,       \* Engine.users: id -> user
    detector,    \* injection.Detector: enabled, blockOnDetection
    maskerEnabled, \* pii.Masker.enabled
    defaultConfig, \* config.LLMConfig the factory was built from
    dbSettings,  \* the LLM settings the settings service returns
    svc,         \* settings.Service: the settings table, the cache and the calls in progress
    g,           \* the guard request of each worker
    calls        \* history: the latest call of EvaluateRequest, Analyze or GetClient, with what it returned

auditVars == <<logs, alerts, appended, acks, uuidCtr, now, lg>>
spendVars == <<hasRepo, repoLimits, engineLimits, trk, ledger, crossings>>
policyVars == <<policies, users>>
configVars == <<detector, maskerEnabled, defaultConfig, dbSettings, svc>>
guardVars == <<policyVars, configVars, g, calls>>

\* ------------------------------------------------------------------------
\* audit.Logger
\* ------------------------------------------------------------------------
EventTypes == {"request", "security_alert", "spending_alert"}
AuditStatuses == {"success", "blocked"}
UserIDs == {"u1", "u2"}

\* a trim that keeps the oldest entries: l.logs[:l.maxLogs]
TrimLogsKeepOldest(ls) ==
    IF Len(ls) > MaxLogs THEN SubSeq(ls, 1, MaxLogs) ELSE ls

\* l.logs = l.logs[len(l.logs)-l.maxLogs:] when len(l.logs) > l.maxLogs
TrimLogs(ls) ==
    IF Len(ls) > MaxLogs
        THEN SubSeq(ls, Len(ls) - MaxLogs + 1, Len(ls))
        ELSE ls

\* The entry as Log stores it: id and timestamp are filled when empty.
FillEntry(entry, id, t) ==
    [entry EXCEPT !.id = IF entry.id = 0 THEN id ELSE entry.id,
                  !.ts = IF entry.ts = 0 THEN t ELSE entry.ts]

\* Logger.Log, the whole critical section
LogAppend(ls, entry) == TrimLogs(Append(ls, entry))

\* An audit entry as a caller builds it (id and ts empty)
NewEntry(eventType, action, status, requestID, details) ==
    [id |-> 0, ts |-> 0, eventType |-> eventType, action |-> action,
     status |-> status, requestID |-> requestID, details |-> details]

Log(entry) ==
    /\ Len(appended) < MaxLogCalls
    /\ LET e == FillEntry(entry, uuidCtr + 1, now)
       IN /\ logs' = LogAppend(logs, e)
          /\ appended' = Append(appended, e)
    /\ uuidCtr' = uuidCtr + 1
    /\ UNCHANGED <<alerts, acks, now, lg>>
    /\ UNCHANGED <<spendVars, guardVars>>

\* Logger.CreateAlert
CreateAlert(alert) ==
    /\ Len(alerts) < MaxAlerts
    /\ alerts' = Append(alerts,
                    [alert EXCEPT !.id = IF alert.id = 0 THEN uuidCtr + 1 ELSE alert.id,
                                  !.createdAt = IF alert.createdAt = 0 THEN now
                                                ELSE alert.createdAt])
    /\ uuidCtr' = uuidCtr + 1
    /\ UNCHANGED <<logs, appended, acks, now, lg>>
    /\ UNCHANGED <<spendVars, guardVars>>

NewAlert(type, severity, userID) ==
    [id |-> 0, type |-> type, severity |-> severity, userID |-> userID,
     createdAt |-> 0, ackedAt |-> 0, ackedBy |-> ""]

\* index of the first alert whose ID is alertID, 0 when there is none
FirstAlertWithID(as, alertID) ==
    IF \E i \in 1..Len(as) : as[i].id = alertID
        THEN CHOOSE i \in 1..Len(as) :
                /\ as[i].id = alertID
                /\ \A j \in 1..(i - 1) : as[j].id # alertID
        ELSE 0

\* The alert after AckAlert has found it
AckFields(a, userID, t) == [a EXCEPT !.ackedAt = t, !.ackedBy = userID]

\* Logger.AckAlert: returns nil whether or not the id was found
AckAlertList(as, alertID, userID, t) ==
    LET i == FirstAlertWithID(as, alertID)
    IN IF i = 0 THEN as ELSE [as EXCEPT ![i] = AckFields(as[i], userID, t)]

\* an AckAlert that reports an id it did not find
AckAlertNotFound(as, alertID) ==
    IF FirstAlertWithID(as, alertID) = 0 THEN "alert not found" ELSE ""

\* the error Logger.AckAlert returns: nil after the loop as inside it
AckAlertError(as, alertID) == ""

AckAlert(alertID, userID) ==
    /\ acks < MaxAcks
    /\ alerts' = AckAlertList(alerts, alertID, userID, now)
    /\ acks' = acks + 1
    /\ calls' = <<[op |-> "AckAlert", alertID |-> alertID,
                   err |-> AckAlertError(alerts, alertID)]>>
    /\ UNCHANGED <<logs, appended, uuidCtr, now, lg>>
    /\ UNCHANGED <<spendVars, policyVars, configVars, g>>

\* time passes
Tick ==
    /\ now < MaxTime
    /\ now' = now + 1
    /\ UNCHANGED <<logs, alerts, appended, acks, uuidCtr, lg>>
    /\ UNCHANGED <<spendVars, guardVars>>

\* ------------------------------------------------------------------------
\* audit.Logger under concurrent callers: Logger.mu (sync.RWMutex) and the
\* statements of Log and Query, one step each
\* ------------------------------------------------------------------------
LogThreads == {"t1", "t2"}
QueryThreads == {"q1"}

\* the mutex with no holder, no goroutine inside Log or Query
IdleLogger ==
    [mu |-> [writer |-> "", readers |-> {}],
     th |-> [t \in LogThreads |-> [pc |-> "idle", entry |-> NewEntry("", "", "", 0, <<>>),
                                    slice |-> <<>>, started |-> 0]],
     q  |-> [t \in QueryThreads |-> [pc |-> "idle", seen |-> <<>>, reads |-> 0]]]

\* a lock that is granted whoever holds it
AlwaysFree(mu) == TRUE

\* l.mu.Lock(): granted when there is neither a writer nor a reader
CanLock(mu) == mu.writer = "" /\ mu.readers = {}

\* l.mu.RLock(): granted when there is no writer
CanRLock(mu) == mu.writer = ""

\* a caller builds its k-th entry and calls Log: l.mu.Lock()
LogLock(t) ==
    /\ lg.th[t].pc = "idle"
    /\ lg.th[t].started < MaxThreadCalls
    /\ CanLock(lg.mu)
    /\ lg' = [lg EXCEPT !.mu.writer = t,
                        !.th[t].pc = "fill",
                        !.th[t].started = @ + 1,
                        !.th[t].entry = NewEntry("request", t, "success",
                                                 lg.th[t].started + 1, <<>>)]
    /\ UNCHANGED <<logs, alerts, appended, acks, uuidCtr, now>>
    /\ UNCHANGED <<spendVars, guardVars>>

\* entry.ID and entry.Timestamp are filled when empty
LogFill(t) ==
    /\ lg.th[t].pc = "fill"
    /\ lg' = [lg EXCEPT !.th[t].pc = "read",
                        !.th[t].entry = FillEntry(@, uuidCtr + 1, now)]
    /\ uuidCtr' = uuidCtr + 1
    /\ UNCHANGED <<logs, alerts, appended, acks, now>>
    /\ UNCHANGED <<spendVars, guardVars>>

\* l.logs = append(l.logs, *entry): the slice is read ...
LogRead(t) ==
    /\ lg.th[t].pc = "read"
    /\ lg' = [lg EXCEPT !.th[t].pc = "write", !.th[t].slice = logs]
    /\ UNCHANGED <<logs, alerts, appended, acks, uuidCtr, now>>
    /\ UNCHANGED <<spendVars, guardVars>>

\* ... and the extended slice is stored
LogWrite(t) ==
    /\ lg.th[t].pc = "write"
    /\ logs' = Append(lg.th[t].slice, lg.th[t].entry)
    /\ appended' = Append(appended, lg.th[t].entry)
    /\ lg' = [lg EXCEPT !.th[t].pc = "trim", !.th[t].slice = <<>>]
    /\ UNCHANGED <<alerts, acks, uuidCtr, now>>
    /\ UNCHANGED <<spendVars, guardVars>>

\* if len(l.logs) > l.maxLogs the oldest entries are dropped
LogTrim(t) ==
    /\ lg.th[t].pc = "trim"
    /\ logs' = TrimLogs(logs)
    /\ lg' = [lg EXCEPT !.th[t].pc = "unlock"]
    /\ UNCHANGED <<alerts, appended, acks, uuidCtr, now>>
    /\ UNCHANGED <<spendVars, guardVars>>

\* the deferred l.mu.Unlock(); Log returns nil
LogUnlock(t) ==
    /\ lg.th[t].pc = "unlock"
    /\ lg' = [lg EXCEPT !.mu.writer = IF @ = t THEN "" ELSE @,
                        !.th[t].pc = "idle"]
    /\ UNCHANGED <<logs, alerts, appended, acks, uuidCtr, now>>
    /\ UNCHANGED <<spendVars, guardVars>>

\* Query: l.mu.RLock()
QueryRLock(t) ==
    /\ lg.q[t].pc = "idle"
    /\ CanRLock(lg.mu)
    /\ lg' = [lg EXCEPT !.mu.readers = @ \cup {t}, !.q[t].pc = "range"]
    /\ UNCHANGED <<logs, alerts, appended, acks, uuidCtr, now>>
    /\ UNCHANGED <<spendVars, guardVars>>

\* Query: the loop over l.logs sees the store as it is
QueryRange(t) ==
    /\ lg.q[t].pc = "range"
    /\ lg' = [lg EXCEPT !.q[t].pc = "runlock", !.q[t].seen = logs,
                        !.q[t].reads = Min(@ + 1, 1)]
    /\ UNCHANGED <<logs, alerts, appended, acks, uuidCtr, now>>
    /\ UNCHANGED <<spendVars, guardVars>>

\* Query: the deferred l.mu.RUnlock()
QueryRUnlock(t) ==
    /\ lg.q[t].pc = "runlock"
    /\ lg' = [lg EXCEPT !.mu.readers = @ \ {t}, !.q[t].pc = "idle"]
    /\ UNCHANGED <<logs, alerts, appended, acks, uuidCtr, now>>
    /\ UNCHANGED <<spendVars, guardVars>>

\* the page size Query uses when the query gives none
DefaultLimit == 50

\* models.AuditQuery; a time of 0 is a nil pointer, an empty status or set
\* of event types is no filter
AuditQuery(startTime, endTime, eventTypes, status, limit, offset) ==
    [startTime |-> startTime, endTime |-> endTime, eventTypes |-> eventTypes,
     status |-> status, limit |-> limit, offset |-> offset]

\* Logger.matchesQuery
matchesQuery(entry, query) ==
    IF query.startTime # 0 /\ entry.ts < query.startTime THEN FALSE
    ELSE IF query.endTime # 0 /\ entry.ts > query.endTime THEN FALSE
    ELSE IF query.status # "" /\ entry.status # query.status THEN FALSE
    ELSE IF query.eventTypes # {} /\ entry.eventType \notin query.eventTypes THEN FALSE
    ELSE TRUE

\* Logger.Query: the page and the total, or the runtime panic of an index
\* outside the filtered slice
Query(ls, query) ==
    LET filtered == SelectSeq(ls, LAMBDA entry : matchesQuery(entry, query))
        total == Len(filtered)
        offset == IF query.offset > total THEN total ELSE query.offset
        limit == IF query.limit <= 0 THEN DefaultLimit ELSE query.limit
        end == IF offset + limit > total THEN total ELSE offset + limit
        \* the loop runs i from first down to last (indexes from 0)
        first == total - 1 - offset
        last == Max(total - end, 0)
        count == IF first >= last THEN first - last + 1 ELSE 0
    IN IF count > 0 /\ first > total - 1
         THEN [panic |-> TRUE, result |-> <<>>, total |-> 0]
         ELSE [panic |-> FALSE,
               result |-> [k \in 1..count |-> filtered[first + 2 - k]],
               total |-> total]

\* ------------------------------------------------------------------------
\* spending.Tracker: the cost model
\* ------------------------------------------------------------------------
\* A model name is the sequence of its fragments ("gpt-4" + "o" + "-mini"),
\* so that model[:len(key)] == key is a prefix test on fragments.
GPT4 == <<"gpt-4">>
GPT4o == <<"gpt-4", "o">>
GPT4oMini == <<"gpt-4", "o", "-mini">>
GPT4oDated == <<"gpt-4", "o", "-2024-08-06">>
Llama == <<"llama3.3">>
DefaultKey == <<"default">>

\* the keys of defaultPricing kept in the model
PricingKeys == {GPT4, GPT4o, GPT4oMini, DefaultKey}

\* defaultPricing, in cents per million tokens (input, output)
defaultPricing(key) ==
    CASE key = GPT4o -> [input |-> 250, output |-> 1000]
      [] key = GPT4oMini -> [input |-> 15, output |-> 60]
      [] key = GPT4 -> [input |-> 3000, output |-> 6000]
      [] OTHER -> [input |-> 100, output |-> 300]

\* len(model) >= len(key) && model[:len(key)] == key
HasPrefix(model, key) ==
    /\ Len(model) >= Len(key)
    /\ SubSeq(model, 1, Len(key)) = key

\* Tracker.GetPricing: the prices the call may return.  customPricing is
\* empty (nothing calls SetCustomPricing); an exact key wins; otherwise the
\* first key of the map iteration that is a prefix, and Go iterates a map in
\* an unspecified order; otherwise the "default" entry.
GetPricing(model) ==
    IF model \in PricingKeys
        THEN {defaultPricing(model)}
        ELSE LET hits == {k \in PricingKeys : HasPrefix(model, k)}
             IN IF hits # {} THEN {defaultPricing(k) : k \in hits}
                ELSE {defaultPricing(DefaultKey)}

\* Tracker.CalculateCost, in units of 1e-8 USD (the division by 1e6 is the unit)
CalculateCost(pricing, promptTokens, completionTokens) ==
    promptTokens * pricing.input + completionTokens * pricing.output

\* ------------------------------------------------------------------------
\* Spending limits: database.Repository and policy.Engine
\* ------------------------------------------------------------------------
Trackers == {"t1", "t2"}
NilUsage == [nil |-> TRUE, prompt |-> 0, completion |-> 0]
Usage(p, c) == [nil |-> FALSE, prompt |-> p, completion |-> c]

\* the (model, usage) pairs RecordUsage is called with
UsageInputs ==
    { <<GPT4o, Usage(1, 0)>>, <<GPT4o, Usage(0, 1)>>,
      <<GPT4oDated, Usage(1, 0)>>, <<Llama, NilUsage>> }

\* request bodies of the spending-limit control API
LimitBodies ==
    { [id |-> 0, userID |-> "u1", limitAmount |-> 1000, currentSpend |-> 600, alertAt |-> 80],
      [id |-> 0, userID |-> "",   limitAmount |-> 1000, currentSpend |-> 0,   alertAt |-> 0],
      [id |-> 0, userID |-> "*",  limitAmount |-> 2000, currentSpend |-> 0,   alertAt |-> 50] }

RECURSIVE Reverse(_)
Reverse(s) == IF s = <<>> THEN <<>> ELSE Append(Reverse(Tail(s)), Head(s))

\* Repository.CreateSpendingLimit: INSERT with a fresh id; current_spend is the body's
RepoCreateSpendingLimit(rows, limit, id) == Append(rows, [limit EXCEPT !.id = id])

\* Repository.ListSpendingLimits: SELECT ... ORDER BY created_at DESC
ListSpendingLimits(rows) == Reverse(rows)

\* Repository.UpdateSpendingLimit: UPDATE ... SET every column WHERE id = $1
RepoUpdateSpendingLimit(rows, limit) ==
    [i \in 1..Len(rows) |-> IF rows[i].id = limit.id THEN limit ELSE rows[i]]

\* a match that forgets the "*" spelling of a global limit
MatchesUserNoStar(limit, userID) ==
    \/ limit.userID = userID
    \/ limit.userID = ""

\* limit.UserID == userID || limit.UserID == "" || limit.UserID == "*"
MatchesUser(limit, userID) ==
    \/ limit.userID = userID
    \/ limit.userID = ""
    \/ limit.userID = "*"

\* the next limit of the listing at or after index i that RecordUsage updates, 0 if none
NextMatch(limits, i, userID) ==
    IF \E k \in i..Len(limits) : MatchesUser(limits[k], userID)
        THEN CHOOSE k \in i..Len(limits) :
                /\ MatchesUser(limits[k], userID)
                /\ \A j \in i..(k - 1) : ~MatchesUser(limits[j], userID)
        ELSE 0

\* alertThreshold := limit.LimitAmount * (limit.AlertAt / 100);
\* limit.CurrentSpend >= alertThreshold, with both sides scaled by 100
AtOrAboveThreshold(limit, spend) ==
    /\ limit.alertAt > 0
    /\ spend * 100 >= limit.limitAmount * limit.alertAt

IdleCall ==
    [pc |-> "idle", userID |-> "", usageNil |-> FALSE, cost |-> 0,
     limits |-> <<>>, idx |-> 0, before |-> <<>>, after |-> <<>>, alone |-> TRUE]

\* Tracker.RecordUsage up to and including t.repo.ListSpendingLimits
RecordUsageBegin(t, userID, model, usage) ==
    /\ trk[t].pc = "idle"
    /\ \E pricing \in GetPricing(model) :
         LET cost == CalculateCost(pricing, usage.prompt, usage.completion)
             listed == ListSpendingLimits(repoLimits)
             k == NextMatch(listed, 1, userID)
             returns == ~hasRepo \/ usage.nil
             quiet == \A o \in Trackers \ {t} : trk[o].pc # "update"
         IN trk' = [o \in Trackers |->
                     IF o = t
                       THEN [pc |-> IF returns \/ k = 0 THEN "done" ELSE "update",
                             userID |-> IF returns THEN "" ELSE userID,
                             usageNil |-> usage.nil,
                             cost |-> IF returns THEN 0 ELSE cost,
                             limits |-> IF returns THEN <<>> ELSE listed,
                             idx |-> IF returns THEN 0 ELSE k,
                             before |-> repoLimits, after |-> repoLimits,
                             alone |-> quiet]
                       ELSE IF trk[o].pc = "update" /\ ~returns /\ k # 0
                              THEN [trk[o] EXCEPT !.alone = FALSE]
                              ELSE trk[o]]
    /\ UNCHANGED <<hasRepo, repoLimits, engineLimits, ledger, crossings>>
    /\ UNCHANGED <<auditVars, guardVars>>

\* One turn of the loop of Tracker.RecordUsage on a matching limit:
\* limit.CurrentSpend += cost; t.repo.UpdateSpendingLimit(ctx, limit); the
\* threshold test only writes a line to the process log.
RecordUsageUpdate(t) ==
    /\ trk[t].pc = "update"
    /\ LET c == trk[t]
           limit == c.limits[c.idx]
           updated == [limit EXCEPT !.currentSpend = limit.currentSpend + c.cost]
           k == NextMatch(c.limits, c.idx + 1, c.userID)
       IN /\ repoLimits' = RepoUpdateSpendingLimit(repoLimits, updated)
          /\ trk' = [trk EXCEPT ![t] =
                        [c EXCEPT !.pc = IF k = 0 THEN "done" ELSE "update",
                                  !.idx = k,
                                  !.limits = [c.limits EXCEPT ![c.idx] = updated],
                                  !.after = repoLimits']]
          /\ ledger' = [ledger EXCEPT ![limit.id] = @ + c.cost]
          /\ crossings' = crossings +
                (IF /\ ~AtOrAboveThreshold(limit, limit.currentSpend)
                    /\ AtOrAboveThreshold(limit, updated.currentSpend)
                   THEN 1 ELSE 0)
    /\ UNCHANGED <<hasRepo, engineLimits>>
    /\ UNCHANGED <<auditVars, guardVars>>

\* Engine.CreateSpendingLimit: id kept when given, CurrentSpend = 0
EngineCreateSpendingLimit(m, limit, id) ==
    LET lid == IF limit.id = 0 THEN id ELSE limit.id
    IN [i \in DOMAIN m \cup {lid} |->
          IF i = lid THEN [limit EXCEPT !.id = lid, !.currentSpend = 0] ELSE m[i]]

\* Engine.UpdateSpendingLimit: replaces the stored limit by the given one;
\* "spending limit not found" leaves the map as it is
EngineUpdateSpendingLimit(m, limit) ==
    IF limit.id \in DOMAIN m THEN [m EXCEPT ![limit.id] = limit] ELSE m

\* Engine.RecordSpending: limits whose UserID is userID
EngineRecordSpending(m, userID, amount) ==
    [i \in DOMAIN m |->
        IF m[i].userID = userID
            THEN [m[i] EXCEPT !.currentSpend = @ + amount]
            ELSE m[i]]

\* ControlHandler.CreateSpendingLimit
CreateSpendingLimit(body) ==
    /\ Len(repoLimits) + Cardinality(DOMAIN engineLimits) < MaxLimits
    /\ LET id == uuidCtr + 1
       IN /\ uuidCtr' = id
          /\ IF hasRepo
               THEN /\ repoLimits' = RepoCreateSpendingLimit(repoLimits, body, id)
                    /\ ledger' = [i \in DOMAIN ledger \cup {id} |->
                                    IF i = id THEN body.currentSpend ELSE ledger[i]]
                    /\ UNCHANGED engineLimits
               ELSE /\ engineLimits' = EngineCreateSpendingLimit(engineLimits, body, id)
                    /\ UNCHANGED <<repoLimits, ledger>>
    /\ UNCHANGED <<hasRepo, trk, crossings>>
    /\ UNCHANGED <<logs, alerts, appended, acks, now, lg>>
    /\ UNCHANGED guardVars

\* the ids of every limit stored anywhere
LimitIDs == {repoLimits[i].id : i \in 1..Len(repoLimits)} \cup DOMAIN engineLimits

\* ControlHandler.UpdateSpendingLimit: always through the engine
UpdateSpendingLimit(id, body) ==
    /\ engineLimits' = EngineUpdateSpendingLimit(engineLimits, [body EXCEPT !.id = id])
    /\ UNCHANGED <<hasRepo, repoLimits, trk, ledger, crossings>>
    /\ UNCHANGED <<auditVars, guardVars>>

\* ControlHandler.GetSpendingLimit: the limit with the id, read from the
\* repository when there is one and from the engine otherwise; <<>> is 404
GetSpendingLimit(repo, rows, m, id) ==
    IF repo THEN SelectSeq(rows, LAMBDA l : l.id = id)
    ELSE IF id \in DOMAIN m THEN <<m[id]>> ELSE <<>>

\* the status ControlHandler.UpdateSpendingLimit answers with: 404 when the
\* engine does not hold the id
UpdateSpendingLimitStatus(m, id) == IF id \in DOMAIN m THEN 200 ELSE 404

\* ControlHandler.UpdateSpendingLimit with its request and answer kept
UpdateSpendingLimitCall(id, body) ==
    /\ engineLimits' = EngineUpdateSpendingLimit(engineLimits, [body EXCEPT !.id = id])
    /\ calls' = <<[op |-> "UpdateSpendingLimit", id |-> id, body |-> body,
                   found |-> GetSpendingLimit(hasRepo, repoLimits, engineLimits, id) # <<>>,
                   status |-> UpdateSpendingLimitStatus(engineLimits, id)]>>
    /\ UNCHANGED <<hasRepo, repoLimits, trk, ledger, crossings>>
    /\ UNCHANGED <<auditVars, policyVars, configVars, g>>

\* Engine.RecordSpending
RecordSpending(userID, amount) ==
    /\ \A i \in DOMAIN engineLimits :
          engineLimits[i].userID = userID => engineLimits[i].currentSpend + amount <= MaxSpend
    /\ engineLimits' = EngineRecordSpending(engineLimits, userID, amount)
    /\ UNCHANGED <<hasRepo, repoLimits, trk, ledger, crossings>>
    /\ UNCHANGED <<auditVars, guardVars>>

\* Engine.CheckSpendingLimit: allowed unless a limit of the user would be
\* passed, CurrentSpend + additionalAmount > LimitAmount
CheckSpendingLimit(m, userID, additionalAmount) ==
    ~\E i \in DOMAIN m :
        /\ m[i].userID = userID
        /\ m[i].currentSpend + additionalAmount > m[i].limitAmount

\* Tracker.CheckLimit: exceeded when a limit that matches the user has
\* CurrentSpend >= LimitAmount
CheckLimit(rows, userID) ==
    \E i \in 1..Len(rows) :
        /\ MatchesUser(rows[i], userID)
        /\ rows[i].currentSpend >= rows[i].limitAmount

\* the loop of Tracker.RecordUsage run by one caller alone: every listed
\* limit that matches the user is written back with the cost added
RECURSIVE RecordUsageLoop(_, _, _, _, _)
RecordUsageLoop(rows, listed, i, userID, cost) ==
    IF i > Len(listed) THEN rows
    ELSE IF MatchesUser(listed[i], userID)
      THEN RecordUsageLoop(
               RepoUpdateSpendingLimit(rows, [listed[i] EXCEPT !.currentSpend = @ + cost]),
               listed, i + 1, userID, cost)
    ELSE RecordUsageLoop(rows, listed, i + 1, userID, cost)

\* the amounts Engine.RecordSpending is called with
SpendAmounts == {250}

\* ------------------------------------------------------------------------
\* injection.Detector
\* ------------------------------------------------------------------------
\* The content of a message is described by what the detector's patterns
\* find in it: the types of the regular expressions that match (in pattern
\* order), the keywords that occur (in keyword order), whether it holds a
\* suspicious character sequence, and the number of PII matches.
Content(regex, keywords, suspicious, pii) ==
    [regex |-> regex, keywords |-> keywords, suspicious |-> suspicious, pii |-> pii]

\* "Explain OAuth"
CleanText == Content(<<>>, <<>>, FALSE, 0)
\* "Ignore all previous instructions"
OverrideText == Content(<<"instruction_override">>, <<>>, FALSE, 0)
\* "new instructions: ..."
KeywordText == Content(<<>>, <<"new instructions:">>, FALSE, 0)
\* "my email is john@example.com"
EmailText == Content(<<>>, <<>>, FALSE, 1)

Message(role, content) == [role |-> role, content |-> content]

\* strings.ToLower on the role names that occur
ToLower(role) == IF role = "System" THEN "system" ELSE role

\* formatLocation: strings.ToLower(role) + "_message_" + index
formatLocation(index, role) == <<ToLower(role), "_message_", index>>

Detection(type, pattern, location, confidence) ==
    [type |-> type, pattern |-> pattern, location |-> location, confidence |-> confidence]

\* a loop body that classifies system messages too
MessageDetectionsAll(i, msg) ==
    LET location == formatLocation(i - 1, msg.role)
        c == msg.content
    IN [k \in 1..Len(c.regex) |-> Detection(c.regex[k], c.regex[k], location, 85)]
       \o [k \in 1..Len(c.keywords) |->
               Detection("keyword_match", c.keywords[k], location, 70)]
       \o (IF c.suspicious
             THEN <<Detection("suspicious_encoding", "special_characters", location, 60)>>
             ELSE <<>>)

\* the detections of one message, confidence in hundredths
MessageDetections(i, msg) ==
    LET location == formatLocation(i - 1, msg.role)
        c == msg.content
    IN IF msg.role = "system" THEN <<>>
       ELSE [k \in 1..Len(c.regex) |-> Detection(c.regex[k], c.regex[k], location, 85)]
            \o [k \in 1..Len(c.keywords) |->
                    Detection("keyword_match", c.keywords[k], location, 70)]
            \o (IF c.suspicious
                  THEN <<Detection("suspicious_encoding", "special_characters", location, 60)>>
                  ELSE <<>>)

RECURSIVE DetectionsFrom(_, _)
DetectionsFrom(messages, i) ==
    IF i > Len(messages) THEN <<>>
    ELSE MessageDetections(i, messages[i]) \o DetectionsFrom(messages, i + 1)

criticalTypes == {"jailbreak_attempt", "data_exfiltration", "delimiter_injection"}

\* the largest element of a non-empty set of numbers
MaxOf(S) == CHOOSE m \in S : \A x \in S : x <= m

\* a level that leaves out the rule for three or more detections
calculateThreatLevelNoCount(detections) ==
    IF Len(detections) = 0 THEN "none"
    ELSE LET maxConfidence == MaxOf({0} \cup {detections[i].confidence : i \in 1..Len(detections)})
         IN IF \E i \in 1..Len(detections) : detections[i].type \in criticalTypes
              THEN "critical"
            ELSE IF maxConfidence >= 85 THEN "high"
            ELSE IF maxConfidence >= 70 THEN "medium"
            ELSE "low"

\* a level taken from the confidence of the last detection
calculateThreatLevelByLast(detections) ==
    IF Len(detections) = 0 THEN "none"
    ELSE LET last == detections[Len(detections)]
         IN IF last.type \in criticalTypes \/ Len(detections) >= 3 THEN "critical"
            ELSE IF last.confidence >= 85 THEN "high"
            ELSE IF last.confidence >= 70 THEN "medium"
            ELSE "low"

\* calculateThreatLevel: maxConfidence starts at 0.0
calculateThreatLevel(detections) ==
    IF Len(detections) = 0 THEN "none"
    ELSE LET hasCritical == \E i \in 1..Len(detections) : detections[i].type \in criticalTypes
             maxConfidence == MaxOf({0} \cup {detections[i].confidence : i \in 1..Len(detections)})
         IN IF hasCritical \/ Len(detections) >= 3 THEN "critical"
            ELSE IF maxConfidence >= 85 THEN "high"
            ELSE IF maxConfidence >= 70 THEN "medium"
            ELSE "low"

\* Detector.Analyze
Analyze(d, messages) ==
    IF ~d.enabled
        THEN [injectionDetected |-> FALSE, threatLevel |-> "none",
              detections |-> <<>>, blockedReason |-> ""]
        ELSE LET detections == DetectionsFrom(messages, 1)
                 level == calculateThreatLevel(detections)
             IN [injectionDetected |-> Len(detections) > 0,
                 threatLevel |-> level,
                 detections |-> detections,
                 blockedReason |->
                     IF Len(detections) > 0 /\ d.blockOnDetection /\ level # "low"
                         THEN "Potential prompt injection detected" ELSE ""]

\* a block rule that does not look at blockOnDetection
ShouldBlockAlways(d, report) ==
    report.threatLevel = "high" \/ report.threatLevel = "critical"

\* Detector.ShouldBlock
ShouldBlock(d, report) ==
    IF ~d.blockOnDetection THEN FALSE
    ELSE report.threatLevel = "high" \/ report.threatLevel = "critical"

\* the sequences over S of length at most n
SeqsUpTo(S, n) == UNION {[1..k -> S] : k \in 0..n}

\* "\u200b"
SuspiciousText == Content(<<>>, <<>>, TRUE, 0)
\* "jailbreak"
JailbreakText == Content(<<"jailbreak_attempt">>, <<>>, FALSE, 0)

\* the messages Analyze is called with
AnalyzeMessages ==
    {Message(role, content) :
        role \in {"system", "user", "System"},
        content \in {CleanText, OverrideText, KeywordText, SuspiciousText, JailbreakText}}

\* a call of Detector.Analyze and the report it returned
AnalyzeCall(messages) ==
    /\ calls' = <<[op |-> "Analyze", messages |-> messages,
                   report |-> Analyze(detector, messages)]>>
    /\ UNCHANGED <<auditVars, spendVars, policyVars, configVars, g>>

ThreatLevels == {"none", "low", "medium", "high", "critical"}

\* a call of Detector.ShouldBlock on a report of the given threat level
ShouldBlockCall(level) ==
    /\ LET report == [injectionDetected |-> level # "none", threatLevel |-> level,
                      detections |-> <<>>, blockedReason |-> ""]
       IN calls' = <<[op |-> "ShouldBlock", report |-> report,
                      blocked |-> ShouldBlock(detector, report)]>>
    /\ UNCHANGED <<auditVars, spendVars, policyVars, configVars, g>>

\* the detections calculateThreatLevel is called with: a type and a
\* confidence in hundredths
DetectionKinds ==
    { Detection("instruction_override", "ignore", <<"user", "_message_", 0>>, 85),
      Detection("keyword_match", "new instructions:", <<"user", "_message_", 0>>, 70),
      Detection("suspicious_encoding", "special_characters", <<"user", "_message_", 0>>, 60),
      Detection("jailbreak_attempt", "jailbreak", <<"user", "_message_", 0>>, 85),
      Detection("unknown", "x", <<"user", "_message_", 0>>, 84),
      Detection("unknown", "y", <<"user", "_message_", 0>>, 69) }

\* a call of calculateThreatLevel and the level it returned
ThreatLevelCall(detections) ==
    /\ calls' = <<[op |-> "calculateThreatLevel", detections |-> detections,
                   level |-> calculateThreatLevel(detections)]>>
    /\ UNCHANGED <<auditVars, spendVars, policyVars, configVars, g>>

\* ------------------------------------------------------------------------
\* pii.Masker
\* ------------------------------------------------------------------------
\* Masker.Mask: the masked messages and the report; the matches of a
\* message are replaced by their masks
Mask(enabled, messages) ==
    IF ~enabled
        THEN [messages |-> messages, piiDetected |-> FALSE, piiCount |-> 0]
        ELSE LET RECURSIVE Sum(_)
                 Sum(i) == IF i = 0 THEN 0 ELSE messages[i].content.pii + Sum(i - 1)
                 n == Sum(Len(messages))
             IN [messages |-> [i \in 1..Len(messages) |->
                                  [messages[i] EXCEPT !.content.pii = 0]],
                 piiDetected |-> n > 0,
                 piiCount |-> n]

\* ------------------------------------------------------------------------
\* pii.Masker on message texts
\* ------------------------------------------------------------------------
\* A text is the sequence of its characters. The texts the masker is run on
\* are made of the digits 7, 8 and 9, "-" and " ": on them only the phone
\* and ssn patterns of the default PII types can match (a card number starts
\* with 3, 4, 5 or 6, the phone prefix is 1, an email needs "@", an IP
\* address ".").
IsDigit(c) == c \in {"7", "8", "9"}

\* \b of the patterns at position p of s, between s[p - 1] and s[p]
WordBoundary(s, p) ==
    (p > 1 /\ IsDigit(s[p - 1])) # (p <= Len(s) /\ IsDigit(s[p]))

\* the digit groups of the patterns phone and ssn
piiPatterns == [phone |-> <<3, 3, 4>>, ssn |-> <<3, 2, 4>>]

\* groups of digits with an optional "-" or " " between them, matched at
\* position p: the position after the match, 0 when there is none
RECURSIVE MatchGroups(_, _, _)
MatchGroups(s, p, groups) ==
    IF groups = <<>> THEN p
    ELSE LET q == p + Head(groups)
         IN IF q - 1 > Len(s) \/ \E i \in p..(q - 1) : ~IsDigit(s[i]) THEN 0
            ELSE IF Tail(groups) # <<>> /\ q <= Len(s) /\ s[q] \in {"-", " "}
                   THEN MatchGroups(s, q + 1, Tail(groups))
                   ELSE MatchGroups(s, q, Tail(groups))

\* a pattern matched at position p; the ssn pattern is enclosed in \b
MatchAt(s, p, piiType) ==
    LET e == MatchGroups(s, p, piiPatterns[piiType])
    IN IF e = 0 THEN 0
       ELSE IF piiType = "ssn" /\ ~(WordBoundary(s, p) /\ WordBoundary(s, e)) THEN 0
       ELSE e

\* regexp.FindAllStringIndex: the leftmost matches that do not overlap, as
\* <<start, end>> with end the position after the match
RECURSIVE FindAllStringIndex(_, _, _)
FindAllStringIndex(s, p, piiType) ==
    IF p > Len(s) THEN <<>>
    ELSE LET e == MatchAt(s, p, piiType)
         IN IF e = 0 THEN FindAllStringIndex(s, p + 1, piiType)
            ELSE <<<<p, e>>>> \o FindAllStringIndex(s, e, piiType)

\* Masker.generateMask with maskChar "*": a phone number keeps its last four
\* characters, an ssn becomes ***-**- and its last four digits
generateMask(piiType, original) ==
    LET cleaned == SelectSeq(original, IsDigit)
        n == Len(original)
    IN IF piiType = "phone"
         THEN [i \in 1..(n - 4) |-> "*"] \o SubSeq(original, n - 3, n)
         ELSE <<"*", "*", "*", "-", "*", "*", "-">>
                 \o SubSeq(cleaned, Len(cleaned) - 3, Len(cleaned))

\* Masker.maskContent, the loop over the matches of one pattern, last match
\* first
RECURSIVE maskMatches(_, _, _, _)
maskMatches(result, piiType, allMatches, location) ==
    IF allMatches = <<>> THEN [content |-> result, matches |-> <<>>]
    ELSE LET match == allMatches[Len(allMatches)]
             originalValue == SubSeq(result, match[1], match[2] - 1)
             maskedValue == generateMask(piiType, originalValue)
             rest == maskMatches(SubSeq(result, 1, match[1] - 1) \o maskedValue
                                    \o SubSeq(result, match[2], Len(result)),
                                 piiType, SubSeq(allMatches, 1, Len(allMatches) - 1),
                                 location)
         IN [content |-> rest.content,
             matches |-> <<[type |-> piiType, originalValue |-> originalValue,
                            maskedValue |-> maskedValue, location |-> location,
                            startPosition |-> match[1] - 1,
                            endPosition |-> match[2] - 1]>> \o rest.matches]

\* Masker.maskContent; order is the order in which the range over the map
\* m.patterns yields the patterns
RECURSIVE maskContent(_, _, _)
maskContent(content, location, order) ==
    IF order = <<>> THEN [content |-> content, matches |-> <<>>]
    ELSE LET one == maskMatches(content, Head(order),
                                FindAllStringIndex(content, 1, Head(order)), location)
             rest == maskContent(one.content, location, Tail(order))
         IN [content |-> rest.content, matches |-> one.matches \o rest.matches]

\* Masker.Mask on texts; orders[i] is the pattern order of message i
MaskTexts(enabled, messages, orders) ==
    LET masked == [i \in 1..Len(messages) |->
                      maskContent(messages[i].content,
                                  formatLocation(i - 1, messages[i].role), orders[i])]
        RECURSIVE piiTypes(_)
        piiTypes(i) == IF i = 0 THEN <<>> ELSE piiTypes(i - 1) \o masked[i].matches
        count == Len(piiTypes(Len(messages)))
    IN IF ~enabled
         THEN [messages |-> messages,
               report |-> [piiDetected |-> FALSE, piiCount |-> 0, piiTypes |-> <<>>,
                           maskedCount |-> 0]]
         ELSE [messages |-> [i \in 1..Len(messages) |->
                                Message(messages[i].role, masked[i].content)],
               report |-> [piiDetected |-> count > 0, piiCount |-> count,
                           piiTypes |-> piiTypes(Len(messages)), maskedCount |-> count]]

\* the texts the masker is called with: no PII, a phone number, an ssn, a
\* phone number with spaces, fifteen digits
Texts ==
    { <<"7", "8">>,
      <<"7", "8", "9", "7", "8", "9", "7", "8", "9", "7">>,
      <<"7", "8", "9", "-", "7", "8", "-", "9", "7", "8", "9">>,
      <<"7", "8", "9", " ", "7", "8", "9", " ", "7", "8", "9", "7">>,
      <<"7", "8", "9", "7", "8", "9", "7", "8", "9", "7", "8", "9", "7", "8", "9">> }

\* the orders in which Go may range over the two patterns
PatternOrders == {<<"phone", "ssn">>, <<"ssn", "phone">>}

\* a call of Masker.Mask and what it returned
MaskCall(messages, orders) ==
    /\ calls' = <<[op |-> "Mask", messages |-> messages,
                   out |-> MaskTexts(maskerEnabled, messages, orders)]>>
    /\ UNCHANGED <<auditVars, spendVars, policyVars, configVars, g>>

\* ------------------------------------------------------------------------
\* policy.Engine: evaluation
\* ------------------------------------------------------------------------
\* A value of a rule or of a request field: a string (a sequence of
\* fragments), a number, or nil
Str(fragments) == [kind |-> "str", s |-> fragments, n |-> 0]
Num(n) == [kind |-> "num", s |-> <<>>, n |-> n]
NilValue == [kind |-> "nil", s |-> <<>>, n |-> 0]

\* fmt.Sprintf("%v", v)
Sprint(v) ==
    CASE v.kind = "str" -> v.s
      [] v.kind = "num" -> <<ToString(v.n)>>
      [] OTHER -> <<"<nil>">>

\* toFloat: numbers as they are, anything else 0
toFloat(v) == IF v.kind = "num" THEN v.n ELSE 0

\* findSubstring
findSubstring(s, substr) ==
    \E i \in 0..(Len(s) - Len(substr)) : SubSeq(s, i + 1, i + Len(substr)) = substr

\* contains
contains(s, substr) ==
    /\ Len(s) >= Len(substr)
    /\ \/ s = substr
       \/ Len(substr) = 0
       \/ (Len(s) > 0 /\ Len(substr) > 0 /\ findSubstring(s, substr))

\* Engine.compareValues
compareValues(fieldValue, operator, ruleValue) ==
    CASE operator = "equals" -> Sprint(fieldValue) = Sprint(ruleValue)
      [] operator = "not_equals" -> Sprint(fieldValue) # Sprint(ruleValue)
      [] operator = "greater_than" -> toFloat(fieldValue) > toFloat(ruleValue)
      [] operator = "less_than" -> toFloat(fieldValue) < toFloat(ruleValue)
      [] operator = "contains" -> contains(Sprint(fieldValue), Sprint(ruleValue))
      [] operator = "not_contains" -> ~contains(Sprint(fieldValue), Sprint(ruleValue))
      [] OTHER -> FALSE

\* an EvaluationRequest
EvaluationRequest(userID, model, provider, tokenCount, cost) ==
    [userID |-> userID, model |-> model, provider |-> provider,
     tokenCount |-> tokenCount, cost |-> cost, metadata |-> <<>>]

\* Engine.evaluateRule
evaluateRule(rule, req) ==
    LET fieldValue ==
            CASE rule.field = "user_id" -> Str(<<req.userID>>)
              [] rule.field = "model" -> Str(req.model)
              [] rule.field = "provider" -> Str(<<req.provider>>)
              [] rule.field = "token_count" -> Num(req.tokenCount)
              [] rule.field = "cost" -> Num(req.cost)
              [] OTHER -> IF rule.field \in DOMAIN req.metadata
                            THEN req.metadata[rule.field] ELSE NilValue
    IN compareValues(fieldValue, rule.operator, rule.value)

\* rule lists evaluated as a running result that each rule is combined
\* with, without leaving the loop early
evaluateRulesFolded(rules, i, req) ==
    LET RECURSIVE Fold(_)
        Fold(k) ==
            IF k = 1 THEN evaluateRule(rules[1], req)
            ELSE IF rules[k].condition = "and"
              THEN Fold(k - 1) /\ evaluateRule(rules[k], req)
            ELSE IF rules[k].condition = "or"
              THEN Fold(k - 1) \/ evaluateRule(rules[k], req)
            ELSE Fold(k - 1)
    IN Fold(Len(rules))

\* Engine.evaluateRules, from rule i on
RECURSIVE evaluateRulesFrom(_, _, _)
evaluateRulesFrom(rules, i, req) ==
    IF i > Len(rules) THEN TRUE
    ELSE LET matched == evaluateRule(rules[i], req)
         IN IF i = 1
              THEN IF ~matched THEN FALSE ELSE evaluateRulesFrom(rules, i + 1, req)
            ELSE IF rules[i].condition = "and" /\ ~matched THEN FALSE
            ELSE IF rules[i].condition = "or" /\ matched THEN TRUE
            ELSE evaluateRulesFrom(rules, i + 1, req)

\* Engine.evaluateRules
evaluateRules(rules, req) ==
    IF Len(rules) = 0 THEN TRUE ELSE evaluateRulesFrom(rules, 1, req)

\* Engine.policyTargetsUser
policyTargetsUser(usrs, policy, userID) ==
    \/ policy.targets.allUsers
    \/ userID \in policy.targets.users
    \/ /\ userID \in DOMAIN usrs
       /\ usrs[userID].groups \cap policy.targets.groups # {}
    \/ (policy.targets.users = {} /\ policy.targets.groups = {})

\* Engine.evaluatePolicy
evaluatePolicy(usrs, policy, req) ==
    LET matched == /\ policyTargetsUser(usrs, policy, req.userID)
                   /\ evaluateRules(policy.rules, req)
    IN [policyID |-> policy.id, policyName |-> policy.name, matched |-> matched,
        action |-> policy.action,
        message |-> IF ~matched THEN ""
                    ELSE IF policy.message = ""
                      THEN "Policy '" \o policy.name \o "' triggered"
                    ELSE policy.message]

\* a filter that lets every policy through, whatever its status
AllPolicies(pols) == DOMAIN pols

\* Engine.getActivePolicies: the ids of the active policies; the order of
\* the slice is the order of a map iteration
getActivePolicies(pols) == {id \in DOMAIN pols : pols[id].status = "active"}

\* the orders in which a map iteration may deliver the ids of set S
Orders(S) ==
    {o \in [1..Cardinality(S) -> S] : \A i, j \in 1..Cardinality(S) : o[i] = o[j] => i = j}

\* a loop body in which the last matched policy decides allowed
ApplyEvaluationLastWins(result, policy, eval) ==
    LET r1 == [result EXCEPT !.evaluations = Append(@, eval)]
    IN IF ~eval.matched THEN r1
       ELSE IF eval.action = "deny"
         THEN [r1 EXCEPT !.allowed = FALSE, !.blockedBy = policy.id,
                         !.blockReason = eval.message]
       ELSE IF eval.action = "warn"
         THEN [r1 EXCEPT !.allowed = TRUE, !.warnings = Append(@, eval.message)]
       ELSE IF eval.action = "throttle"
         THEN [r1 EXCEPT !.allowed = TRUE, !.throttled = TRUE]
       ELSE [r1 EXCEPT !.allowed = TRUE]

\* a loop body that keeps the evaluation of a matched policy only
ApplyEvaluationMatchedOnly(result, policy, eval) ==
    IF ~eval.matched THEN result
    ELSE LET r1 == [result EXCEPT !.evaluations = Append(@, eval)]
         IN IF eval.action = "deny"
              THEN [r1 EXCEPT !.allowed = FALSE, !.blockedBy = policy.id,
                              !.blockReason = eval.message]
            ELSE IF eval.action = "warn"
              THEN [r1 EXCEPT !.warnings = Append(@, eval.message)]
            ELSE IF eval.action = "throttle"
              THEN [r1 EXCEPT !.throttled = TRUE]
            ELSE r1

\* the body of the loop of Engine.EvaluateRequest: the evaluation is
\* appended and, when it matched, its action is applied to the result
ApplyEvaluation(result, policy, eval) ==
    LET r1 == [result EXCEPT !.evaluations = Append(@, eval)]
    IN IF ~eval.matched THEN r1
       ELSE IF eval.action = "deny"
         THEN [r1 EXCEPT !.allowed = FALSE, !.blockedBy = policy.id,
                         !.blockReason = eval.message]
       ELSE IF eval.action = "warn"
         THEN [r1 EXCEPT !.warnings = Append(@, eval.message)]
       ELSE IF eval.action = "throttle"
         THEN [r1 EXCEPT !.throttled = TRUE]
       ELSE r1

\* the loop of Engine.EvaluateRequest over the policies in the given order
RECURSIVE EvaluateInOrder(_, _, _, _, _, _)
EvaluateInOrder(pols, usrs, order, i, req, result) ==
    IF i > Len(order) THEN result
    ELSE LET policy == pols[order[i]]
             eval == evaluatePolicy(usrs, policy, req)
         IN EvaluateInOrder(pols, usrs, order, i + 1, req,
                            ApplyEvaluation(result, policy, eval))

\* Engine.EvaluateRequest: the results the call may return
EvaluateRequest(pols, usrs, req) ==
    {EvaluateInOrder(pols, usrs, order, 1, req,
                     [allowed |-> TRUE, blockedBy |-> 0, blockReason |-> "",
                      warnings |-> <<>>, throttled |-> FALSE, evaluations |-> <<>>]) :
        order \in Orders(getActivePolicies(pols))}

\* Engine.CreatePolicy
EngineCreatePolicy(pols, policy, id) ==
    LET pid == IF policy.id = 0 THEN id ELSE policy.id
    IN [i \in DOMAIN pols \cup {pid} |-> IF i = pid THEN [policy EXCEPT !.id = pid] ELSE pols[i]]

\* ------------------------------------------------------------------------
\* llm.ClientFactory
\* ------------------------------------------------------------------------
\* mapProviderName succeeds for these names
SupportedProviders ==
    {"openai", "anthropic", "claude", "gemini", "google", "ollama",
     "xai", "grok", "bedrock", "aws"}

\* config.LLMConfig with no base URL
LLMConfig(provider, model, apiKey) ==
    [provider |-> provider, model |-> model, apiKey |-> apiKey, baseURL |-> ""]

\* a configuration, a request or stored settings with a base URL
WithBaseURL(r, baseURL) == [r EXCEPT !.baseURL = baseURL]

\* llm.NewClient: TRUE when the client is created
NewClient(cfg) == cfg.provider \in SupportedProviders

\* llm.NewClientFactory: the factory exists unless the default client
\* cannot be created
NewClientFactory(cfg) == cfg.apiKey = "" \/ NewClient(cfg)

\* the factory's defaultClient is set when an API key is configured
HasDefaultClient(cfg) == cfg.apiKey # "" /\ NewClient(cfg)

NoClient == [kind |-> "none", cfg |-> LLMConfig("", <<>>, ""), shouldClose |-> FALSE]

\* the outcome of ClientFactory.GetClient
ClientResult(err, kind, cfg, shouldClose) ==
    [err |-> err, client |-> [kind |-> kind, cfg |-> cfg, shouldClose |-> shouldClose]]

\* the configuration GetClient builds from the stored settings
SettingsConfig(settings) ==
    WithBaseURL(LLMConfig(settings.provider, settings.model, settings.apiKey),
                settings.baseURL)

\* the configuration GetClient builds from the request, falling back to
\* the defaults field by field
RequestConfig(cfg, req) ==
    WithBaseURL(LLMConfig(IF req.provider = "" THEN cfg.provider ELSE req.provider,
                          IF req.model = <<>> THEN cfg.model ELSE req.model,
                          IF req.apiKey = "" THEN cfg.apiKey ELSE req.apiKey),
                IF req.baseURL = "" THEN cfg.baseURL ELSE req.baseURL)

\* GetClient with the default client tried before the stored settings
GetClientDefaultFirst(cfg, hasProvider, settings, req) ==
    IF req.provider = "" /\ req.apiKey = "" /\ req.baseURL = ""
        THEN IF HasDefaultClient(cfg)
               THEN ClientResult("", "default", cfg, FALSE)
             ELSE IF hasProvider /\ ~settings.err /\ settings.apiKey # ""
               THEN LET c == SettingsConfig(settings)
                    IN IF NewClient(c)
                         THEN ClientResult("", "settings", c, TRUE)
                         ELSE ClientResult("failed to create client from settings",
                                           "none", NoClient.cfg, FALSE)
             ELSE ClientResult("no LLM client configured and no provider specified in request",
                               "none", NoClient.cfg, FALSE)
        ELSE LET c == RequestConfig(cfg, req)
             IN IF NewClient(c)
                  THEN ClientResult("", "request", c, TRUE)
                  ELSE ClientResult("failed to create LLM client for request",
                                    "none", NoClient.cfg, FALSE)

\* ClientFactory.GetClient; settings is what GetLLMConfig returns and
\* hasProvider tells whether a settings provider is wired
GetClient(cfg, hasProvider, settings, req) ==
    IF req.provider = "" /\ req.apiKey = "" /\ req.baseURL = ""
        THEN IF hasProvider /\ ~settings.err /\ settings.apiKey # ""
               THEN LET c == SettingsConfig(settings)
                    IN IF NewClient(c)
                         THEN ClientResult("", "settings", c, TRUE)
                         ELSE ClientResult("failed to create client from settings",
                                           "none", NoClient.cfg, FALSE)
             ELSE IF ~HasDefaultClient(cfg)
               THEN ClientResult("no LLM client configured and no provider specified in request",
                                 "none", NoClient.cfg, FALSE)
             ELSE ClientResult("", "default", cfg, FALSE)
        ELSE LET c == RequestConfig(cfg, req)
             IN IF NewClient(c)
                  THEN ClientResult("", "request", c, TRUE)
                  ELSE ClientResult("failed to create LLM client for request",
                                    "none", NoClient.cfg, FALSE)

\* ------------------------------------------------------------------------
\* llm.Client.ChatStream
\* ------------------------------------------------------------------------
\* a nil *string
NilReason == "<nil>"

\* one choice of a stream chunk: Delta.Content and FinishReason
Choice(delta, finishReason) == [delta |-> delta, finishReason |-> finishReason]

\* the caller's handler: it returns an error on its failAt-th call, and
\* never when failAt = 0
HandlerError == "handler failed"
handler(n, failAt) == IF failAt # 0 /\ n = failAt THEN HandlerError ELSE ""

\* fullContent, finishReason, the chunks handed to the handler so far, and
\* the error the handler returned
StreamStart == [content |-> "", finishReason |-> "", delivered |-> <<>>, err |-> ""]

\* a loop body that goes on whatever the handler returns
ProcessChunkIgnoringError(st, choices, failAt) ==
    IF Len(choices) = 0 THEN st
    ELSE LET content == choices[1].delta
             s1 == IF content # ""
                     THEN [st EXCEPT !.content = @ \o content,
                                     !.delivered = Append(@, content)]
                   ELSE st
         IN IF choices[1].finishReason # NilReason /\ choices[1].finishReason # ""
              THEN [s1 EXCEPT !.finishReason = choices[1].finishReason]
            ELSE s1

\* the body of the loop of ChatStream for one received chunk
ProcessChunk(st, choices, failAt) ==
    IF Len(choices) = 0 THEN st
    ELSE LET content == choices[1].delta
             s1 == IF content # ""
                     THEN [st EXCEPT !.content = @ \o content,
                                     !.delivered = Append(@, content),
                                     !.err = handler(Len(st.delivered) + 1, failAt)]
                   ELSE st
         IN IF s1.err # "" THEN s1
            ELSE IF choices[1].finishReason # NilReason /\ choices[1].finishReason # ""
              THEN [s1 EXCEPT !.finishReason = choices[1].finishReason]
            ELSE s1

\* the loop of ChatStream: it ends when Recv returns an error or the
\* handler does
RECURSIVE StreamLoop(_, _, _, _)
StreamLoop(chunks, i, st, failAt) ==
    IF i > Len(chunks) THEN st
    ELSE LET s1 == ProcessChunk(st, chunks[i], failAt)
         IN IF s1.err # "" THEN s1 ELSE StreamLoop(chunks, i + 1, s1, failAt)

NoStreamResponse == [present |-> FALSE, content |-> "", finishReason |-> ""]

\* Client.ChatStream: what it returns and what it handed to the handler
ChatStream(initialized, created, chunks, failAt) ==
    IF ~initialized
      THEN [response |-> NoStreamResponse, err |-> "LLM client not initialized",
            delivered |-> <<>>]
    ELSE IF ~created
      THEN [response |-> NoStreamResponse, err |-> "failed to create stream",
            delivered |-> <<>>]
    ELSE LET st == StreamLoop(chunks, 1, StreamStart, failAt)
         IN IF st.err # ""
              THEN [response |-> NoStreamResponse, err |-> st.err,
                    delivered |-> st.delivered]
            ELSE [response |-> [present |-> TRUE, content |-> st.content,
                                finishReason |-> st.finishReason],
                  err |-> "", delivered |-> st.delivered]

\* ------------------------------------------------------------------------
\* api.Handler: Guard
\* ------------------------------------------------------------------------
Guards == {"g1", "g2"}

\* a request body; valid is FALSE when the JSON does not bind
GuardRequest(valid, requestID, messages, provider, model, apiKey) ==
    [valid |-> valid, requestID |-> requestID, messages |-> messages,
     provider |-> provider, model |-> model, apiKey |-> apiKey, baseURL |-> ""]

GuardInputs ==
    { GuardRequest(FALSE, 0, <<>>, "", <<>>, ""),
      GuardRequest(TRUE, 0, <<Message("user", CleanText)>>, "", <<>>, ""),
      GuardRequest(TRUE, 0, <<Message("user", OverrideText)>>, "", <<>>, ""),
      GuardRequest(TRUE, 0, <<Message("system", OverrideText),
                              Message("user", KeywordText)>>, "", <<>>, ""),
      GuardRequest(TRUE, 101, <<Message("user", EmailText)>>, "openai", GPT4, "k2"),
      GuardRequest(TRUE, 0, <<Message("user", CleanText)>>, "acme", <<>>, "k2") }

NoReport == [injectionDetected |-> FALSE, threatLevel |-> "none",
             detections |-> <<>>, blockedReason |-> ""]
NoPIIReport == [piiDetected |-> FALSE, piiCount |-> 0]
NoLLMResponse == [present |-> FALSE, usage |-> NilUsage]
LLMResponse(usage) == [present |-> TRUE, usage |-> usage]

GuardResponse(allowed, sec, pii, llmResponse, error) ==
    [allowed |-> allowed, securityReport |-> sec, piiReport |-> pii,
     llmResponse |-> llmResponse, error |-> error]

\* a Guard call that has not started
IdleGuard ==
    [pc |-> "idle", parsed |-> FALSE, requestID |-> 0, input |-> <<>>, messages |-> <<>>,
     response |-> GuardResponse(TRUE, NoReport, NoPIIReport, NoLLMResponse, ""),
     status |-> 0, client |-> NoClient, closes |-> 0, upstream |-> 0,
     policyDenies |-> FALSE]

\* a handler without the return after the 403 response
GuardProceeds(blocked) == TRUE

\* whether Guard goes on after the injection step: a blocked request is
\* answered with 403 and the handler returns
GuardContinues(blocked) == ~blocked

\* details that also carry the detections of the security report
AuditDetailsWithDetections(action, sec, pii) ==
    [action |-> action,
     injection_detected |-> sec.injectionDetected,
     threat_level |-> sec.threatLevel,
     detection_count |-> IF sec.injectionDetected THEN Len(sec.detections) ELSE 0,
     has_detection_count |-> sec.injectionDetected,
     detections |-> sec.detections,
     pii_detected |-> pii.piiDetected,
     pii_count |-> pii.piiCount]

\* the details Handler.logRequest builds
AuditDetails(action, sec, pii) ==
    [action |-> action,
     injection_detected |-> sec.injectionDetected,
     threat_level |-> sec.threatLevel,
     detection_count |-> IF sec.injectionDetected THEN Len(sec.detections) ELSE 0,
     has_detection_count |-> sec.injectionDetected,
     pii_detected |-> pii.piiDetected,
     pii_count |-> pii.piiCount]

\* the entry Handler.logRequest hands to the audit logger
logRequest(requestID, action, allowed, sec, pii) ==
    NewEntry("request", action, IF allowed THEN "success" ELSE "blocked",
             requestID, AuditDetails(action, sec, pii))

\* the request as the policy engine would see it
PolicyView(req) == EvaluationRequest("", req.model, req.provider, 0, 0)

\* Handler.Guard from the arrival of the request up to the upstream call,
\* or to the response when no upstream call is made
GuardBegin(w, req) ==
    /\ g[w].pc = "idle"
    /\ IF ~req.valid
         THEN /\ g' = [g EXCEPT ![w] = [IdleGuard EXCEPT !.pc = "done", !.status = 400]]
              /\ UNCHANGED <<logs, appended, uuidCtr>>
         ELSE LET generated == req.requestID = 0
                  requestID == IF generated THEN uuidCtr + 1 ELSE req.requestID
                  ctr == IF generated THEN uuidCtr + 1 ELSE uuidCtr
                  sec == Analyze(detector, req.messages)
                  blocked == ShouldBlock(detector, sec)
                  masked == Mask(maskerEnabled, req.messages)
                  pii == [piiDetected |-> masked.piiDetected, piiCount |-> masked.piiCount]
                  hasFactory == NewClientFactory(defaultConfig)
                  got == GetClient(defaultConfig, hasRepo, dbSettings, req)
                  started == [IdleGuard EXCEPT
                                 !.parsed = TRUE,
                                 !.requestID = requestID,
                                 !.input = req.messages,
                                 !.policyDenies =
                                     \E r \in EvaluateRequest(policies, users, PolicyView(req)) :
                                         ~r.allowed]
              IN IF ~GuardContinues(blocked)
                   THEN /\ g' = [g EXCEPT ![w] =
                                  [started EXCEPT
                                      !.pc = "done", !.status = 403,
                                      !.response = GuardResponse(FALSE, sec, NoPIIReport,
                                                                 NoLLMResponse, "")]]
                        /\ uuidCtr' = ctr
                        /\ UNCHANGED <<logs, appended>>
                 ELSE IF hasFactory /\ got.err = ""
                   THEN /\ g' = [g EXCEPT ![w] =
                                  [started EXCEPT
                                      !.pc = "chat", !.messages = masked.messages,
                                      !.client = got.client,
                                      !.response = GuardResponse(~blocked, sec, pii,
                                                                 NoLLMResponse, "")]]
                        /\ uuidCtr' = ctr
                        /\ UNCHANGED <<logs, appended>>
                 ELSE LET error == IF hasFactory THEN got.err ELSE ""
                          e == FillEntry(logRequest(requestID, "guard", ~blocked, sec, pii),
                                         ctr + 1, now)
                      IN /\ g' = [g EXCEPT ![w] =
                                   [started EXCEPT
                                       !.pc = "done", !.status = 200,
                                       !.messages = masked.messages,
                                       !.response = GuardResponse(~blocked, sec, pii,
                                                                  NoLLMResponse, error)]]
                         /\ logs' = LogAppend(logs, e)
                         /\ appended' = Append(appended, e)
                         /\ uuidCtr' = ctr + 1
    /\ UNCHANGED <<alerts, acks, now, lg>>
    /\ UNCHANGED <<spendVars, policyVars, configVars, calls>>

\* what client.Chat may return: an error, a response with usage, a
\* response without usage
ChatOutcomes ==
    { [err |-> "LLM request failed", llmResponse |-> NoLLMResponse],
      [err |-> "", llmResponse |-> LLMResponse(Usage(1, 0))],
      [err |-> "", llmResponse |-> LLMResponse(NilUsage)] }

\* a handler that answers an upstream error with the error alone
ErrorResponse(r, outcome) ==
    IF outcome.err = ""
        THEN [r EXCEPT !.llmResponse = outcome.llmResponse]
        ELSE GuardResponse(r.allowed, NoReport, NoPIIReport, NoLLMResponse, outcome.err)

\* the response after client.Chat returned: the error text or the LLM
\* response is added to what the earlier steps filled in
ChatResponse(r, outcome) ==
    [r EXCEPT !.error = outcome.err, !.llmResponse = outcome.llmResponse]

\* a handler that closes the client only after a successful chat
ClosesOnSuccess(client, outcome) ==
    IF client.shouldClose /\ outcome.err = "" THEN 1 ELSE 0

\* the Close calls the handler's defer makes when Guard returns: one when
\* GetClient said the client is to be closed, whatever client.Chat returned
DeferredCloses(client, outcome) == IF client.shouldClose THEN 1 ELSE 0

\* Handler.Guard from the return of client.Chat to the response: the audit
\* entry, the 200 response and the deferred Close
GuardChat(w, outcome) ==
    /\ g[w].pc = "chat"
    /\ LET r == g[w].response
           e == FillEntry(logRequest(g[w].requestID, "guard", r.allowed,
                                     r.securityReport, r.piiReport),
                          uuidCtr + 1, now)
       IN /\ g' = [g EXCEPT ![w] =
                    [@ EXCEPT !.pc = "done", !.status = 200,
                              !.upstream = @ + 1,
                              !.closes = @ + DeferredCloses(g[w].client, outcome),
                              !.response = ChatResponse(r, outcome)]]
          /\ logs' = LogAppend(logs, e)
          /\ appended' = Append(appended, e)
          /\ uuidCtr' = uuidCtr + 1
    /\ UNCHANGED <<alerts, acks, now, lg>>
    /\ UNCHANGED <<spendVars, policyVars, configVars, calls>>

\* ------------------------------------------------------------------------
\* policy.Engine: the policy store
\* ------------------------------------------------------------------------
PolicyRule(field, operator, value, condition) ==
    [field |-> field, operator |-> operator, value |-> value, condition |-> condition]

Policy(id, name, status, priority, action, rules, message) ==
    [id |-> id, name |-> name, status |-> status, priority |-> priority,
     action |-> action, rules |-> rules,
     targets |-> [allUsers |-> TRUE, users |-> {}, groups |-> {}],
     message |-> message]

PolicyInputs ==
    { Policy(201, "deny all", "active", 1, "deny", <<>>, "denied"),
      Policy(0, "deny gpt-4", "active", 2, "deny",
             <<PolicyRule("model", "contains", Str(<<"gpt-4">>), "")>>, ""),
      Policy(202, "draft", "draft", 1, "deny", <<>>, "") }

\* Engine.CreatePolicy
CreatePolicy(policy) ==
    /\ policies' = EngineCreatePolicy(policies, policy, uuidCtr + 1)
    /\ uuidCtr' = IF policy.id = 0 THEN uuidCtr + 1 ELSE uuidCtr
    /\ UNCHANGED <<logs, alerts, appended, acks, now, lg>>
    /\ UNCHANGED <<spendVars, users, configVars, g, calls>>

\* Engine.UpdatePolicy: the stored policy is replaced by the given one
EngineUpdatePolicy(pols, policy) ==
    [pols EXCEPT ![policy.id] = policy]

\* Engine.UpdatePolicy, called with a stored policy whose priority is changed
UpdatePolicy(id, priority) ==
    /\ id \in DOMAIN policies
    /\ policies' = EngineUpdatePolicy(policies, [policies[id] EXCEPT !.priority = priority])
    /\ UNCHANGED <<auditVars, spendVars, users, configVars, g, calls>>

\* a user of the control plane
User(id, groups) == [id |-> id, groups |-> groups]

UserInputs == {User("u1", {"ops"})}

\* Engine.CreateUser
CreateUser(user) ==
    /\ user.id \notin DOMAIN users
    /\ users' = [u \in DOMAIN users \cup {user.id} |->
                    IF u = user.id THEN user ELSE users[u]]
    /\ UNCHANGED <<auditVars, spendVars, policies, configVars, g, calls>>

\* the policies of the evaluation runs
EvalPolicyInputs ==
    { Policy(301, "deny all", "active", 2, "deny", <<>>, "denied"),
      Policy(302, "warn gpt-4", "active", 1, "warn",
             <<PolicyRule("model", "contains", Str(<<"gpt-4">>), "")>>, ""),
      Policy(303, "draft throttle", "draft", 1, "throttle", <<>>, "draft"),
      [Policy(304, "deny u1", "active", 1, "deny", <<>>, "u1 only")
          EXCEPT !.targets = [allUsers |-> FALSE, users |-> {"u1"}, groups |-> {}]],
      Policy(305, "allow all", "active", 3, "allow", <<>>, "") }

\* the priorities a policy is moved to
Priorities == {3}

\* the request contexts of the evaluation runs
EvalRequests ==
    { EvaluationRequest("u1", GPT4o, "openai", 0, 0),
      EvaluationRequest("u1", Llama, "ollama", 0, 0),
      EvaluationRequest("u2", Llama, "ollama", 0, 0) }

\* the history after one more call: the latest call is kept
Recorded(history, call) == <<call>>

\* a call of Engine.EvaluateRequest and what it returned
Evaluate(req) ==
    /\ \E result \in EvaluateRequest(policies, users, req) :
          calls' = Recorded(calls, [op |-> "EvaluateRequest", policies |-> policies,
                                    users |-> users, req |-> req, result |-> result])
    /\ UNCHANGED <<auditVars, spendVars, policyVars, configVars, g>>

\* ------------------------------------------------------------------------
\* settings.Service: the LLM settings and their cache
\* ------------------------------------------------------------------------
Readers == {"r1", "r2"}

\* the LLM settings as numbers: 0 is what the table holds at start, n is what
\* the n-th UpdateLLMSettings call writes
LLMSettings(provider, model) == [provider |-> provider, model |-> model]

\* NewService: an empty cache, no call in progress
IdleService ==
    [db |-> LLMSettings(0, 0), cache |-> <<>>,
     rd |-> [r \in Readers |-> [pc |-> "idle", settings |-> LLMSettings(0, 0), after |-> 0,
                                failed |-> 0]],
     wr |-> [pc |-> "idle", settings |-> LLMSettings(0, 0)],
     updates |-> 0,     \* history: UpdateLLMSettings calls started
     completed |-> 0,   \* history: the last UpdateLLMSettings call that returned nil
     failed |-> 0]      \* history: UpdateLLMSettings calls that returned an error after a write

\* delete(s.cache, "llm_settings")
Invalidate(cache) == <<>>

\* GetLLMSettings up to the cache lookup under the read lock: a hit returns
\* the cached settings, a miss goes on to read the table
GetLLMSettingsBegin(r) ==
    /\ svc.rd[r].pc \in {"idle", "returned"}
    /\ svc' = [svc EXCEPT !.rd[r] =
                  IF svc.cache # <<>>
                    THEN [pc |-> "returned", settings |-> svc.cache[1], after |-> svc.completed,
                          failed |-> svc.failed]
                    ELSE [pc |-> "llm_provider", settings |-> LLMSettings(0, 0),
                          after |-> svc.completed, failed |-> svc.failed]]
    /\ UNCHANGED <<auditVars, spendVars, policyVars, detector, maskerEnabled,
                   defaultConfig, dbSettings, g, calls>>

\* GetLLMSettings: one repo.GetSetting call
GetLLMSettingsRead(r) ==
    /\ svc.rd[r].pc \in {"llm_provider", "llm_model"}
    /\ svc' = [svc EXCEPT !.rd[r] =
                  IF svc.rd[r].pc = "llm_provider"
                    THEN [@ EXCEPT !.pc = "llm_model", !.settings.provider = svc.db.provider]
                    ELSE [@ EXCEPT !.pc = "store", !.settings.model = svc.db.model]]
    /\ UNCHANGED <<auditVars, spendVars, policyVars, detector, maskerEnabled,
                   defaultConfig, dbSettings, g, calls>>

\* GetLLMSettings: the cache fill under the write lock, and the return
GetLLMSettingsStore(r) ==
    /\ svc.rd[r].pc = "store"
    /\ svc' = [svc EXCEPT !.cache = <<svc.rd[r].settings>>, !.rd[r].pc = "returned"]
    /\ UNCHANGED <<auditVars, spendVars, policyVars, detector, maskerEnabled,
                   defaultConfig, dbSettings, g, calls>>

\* UpdateLLMSettings is called with the next settings
UpdateLLMSettingsBegin ==
    /\ svc.wr.pc = "idle"
    /\ svc.updates < MaxUpdates
    /\ svc' = [svc EXCEPT !.updates = @ + 1,
                          !.wr = [pc |-> "llm_provider",
                                  settings |-> LLMSettings(svc.updates + 1, svc.updates + 1)]]
    /\ UNCHANGED <<auditVars, spendVars, policyVars, detector, maskerEnabled,
                   defaultConfig, dbSettings, g, calls>>

\* UpdateLLMSettings: one repo.SetSetting call; when it fails the update
\* returns the error
UpdateLLMSettingsSet(ok) ==
    /\ svc.wr.pc \in {"llm_provider", "llm_model"}
    /\ svc' = IF ~ok THEN [svc EXCEPT !.wr.pc = "idle",
                                      !.failed = @ + (IF svc.wr.pc = "llm_model" THEN 1 ELSE 0)]
              ELSE IF svc.wr.pc = "llm_provider"
                THEN [svc EXCEPT !.db.provider = svc.wr.settings.provider,
                                 !.wr.pc = "llm_model"]
              ELSE [svc EXCEPT !.db.model = svc.wr.settings.model,
                               !.wr.pc = "invalidate"]
    /\ UNCHANGED <<auditVars, spendVars, policyVars, detector, maskerEnabled,
                   defaultConfig, dbSettings, g, calls>>

\* UpdateLLMSettings: the cache entry is dropped under the write lock and the
\* update returns nil
UpdateLLMSettingsInvalidate ==
    /\ svc.wr.pc = "invalidate"
    /\ svc' = [svc EXCEPT !.cache = Invalidate(svc.cache),
                          !.completed = svc.wr.settings.provider,
                          !.wr.pc = "idle"]
    /\ UNCHANGED <<auditVars, spendVars, policyVars, detector, maskerEnabled,
                   defaultConfig, dbSettings, g, calls>>

\* ------------------------------------------------------------------------
\* Initial state and specifications
\* ------------------------------------------------------------------------
vars == <<auditVars, spendVars, guardVars>>

InitAudit ==
    /\ logs = <<>>
    /\ alerts = <<>>
    /\ appended = <<>>
    /\ acks = 0
    /\ uuidCtr = 0
    /\ now = 1
    /\ lg = IdleLogger

InitSpend ==
    /\ repoLimits = <<>>
    /\ engineLimits = <<>>
    /\ trk = [t \in Trackers |-> IdleCall]
    /\ ledger = <<>>
    /\ crossings = 0

\* a deployment: the configuration the process starts with and the LLM
\* settings stored in the database
Deployment(det, masking, cfg, settings) ==
    [detector |-> det, maskerEnabled |-> masking, defaultConfig |-> cfg,
     dbSettings |-> settings]

Settings(err, provider, model, apiKey) ==
    [err |-> err, provider |-> provider, model |-> model, apiKey |-> apiKey,
     baseURL |-> ""]

\* config.DefaultConfig with an API key in the environment
DefaultDeployment ==
    Deployment([enabled |-> TRUE, blockOnDetection |-> TRUE], TRUE,
               LLMConfig("openai", GPT4o, "k"), Settings(FALSE, "openai", GPT4o, ""))

Deployments ==
    { DefaultDeployment,
      \* detection reports only, settings stored by the dashboard
      Deployment([enabled |-> TRUE, blockOnDetection |-> FALSE], TRUE,
                 LLMConfig("openai", GPT4o, "k"),
                 Settings(FALSE, "anthropic", Llama, "k3")),
      \* no API key configured
      Deployment([enabled |-> TRUE, blockOnDetection |-> TRUE], FALSE,
                 LLMConfig("openai", GPT4o, ""), Settings(TRUE, "", <<>>, "")),
      \* a provider the client library does not know: legacy handler
      Deployment([enabled |-> FALSE, blockOnDetection |-> TRUE], TRUE,
                 LLMConfig("acme", GPT4o, "k"), Settings(FALSE, "openai", GPT4o, "")) }

InitGuard(deployments) ==
    /\ \E dep \in deployments :
          /\ detector = dep.detector
          /\ maskerEnabled = dep.maskerEnabled
          /\ defaultConfig = dep.defaultConfig
          /\ dbSettings = dep.dbSettings
    /\ policies = <<>>
    /\ users = <<>>
    /\ g = [w \in Guards |-> IdleGuard]
    /\ calls = <<>>
    /\ svc = IdleService

Init ==
    /\ InitAudit
    /\ InitSpend
    /\ hasRepo \in BOOLEAN
    /\ InitGuard({DefaultDeployment})

\* the entries the audit ring is driven with
LogInputs ==
    { NewEntry("request", "guard", "success", 0, [action |-> "guard"]),
      NewEntry("request", "guard", "blocked", 0, [action |-> "guard"]),
      NewEntry("security_alert", "detect", "blocked", 0, [action |-> "detect"]) }

\* the audit ring driven directly
NextLog ==
    \/ \E e \in LogInputs : Log(e)
    \/ Tick

InitNoRepo == Init /\ hasRepo = FALSE

SpecLog == InitNoRepo /\ [][NextLog]_vars

\* goroutines that call Log and Query on one Logger at the same time
NextLogThreads ==
    \/ \E t \in LogThreads : LogLock(t)
    \/ \E t \in LogThreads : LogFill(t)
    \/ \E t \in LogThreads : LogRead(t)
    \/ \E t \in LogThreads : LogWrite(t)
    \/ \E t \in LogThreads : LogTrim(t)
    \/ \E t \in LogThreads : LogUnlock(t)
    \/ \E t \in QueryThreads : QueryRLock(t)
    \/ \E t \in QueryThreads : QueryRange(t)
    \/ \E t \in QueryThreads : QueryRUnlock(t)
    \/ Tick

SpecLogThreads == InitNoRepo /\ [][NextLogThreads]_vars

\* the queries the audit store is asked
Queries ==
    { AuditQuery(startTime, endTime, eventTypes, status, limit, offset) :
        startTime \in {0, 2}, endTime \in {0, 1}, eventTypes \in {{}, {"request"}},
        status \in {"", "blocked"}, limit \in {0, 1, 2}, offset \in {-1, 0, 1, 3} }

\* Logger.Query called on the store as it is
QueryCall(query) ==
    /\ calls' = Recorded(calls, [op |-> "Query", logs |-> logs, query |-> query,
                                 out |-> Query(logs, query)])
    /\ UNCHANGED <<auditVars, spendVars, policyVars, configVars, g>>

\* the audit store filled and then queried once
NextQuery ==
    \/ \E e \in LogInputs : calls = <<>> /\ Log(e)
    \/ calls = <<>> /\ Tick
    \/ \E query \in Queries : calls = <<>> /\ QueryCall(query)

SpecQuery == InitNoRepo /\ [][NextQuery]_vars

\* the alert list driven directly
NextAlerts ==
    \/ \E sev \in {"medium", "high"} : CreateAlert(NewAlert("spending", sev, "u1"))
    \/ \E id \in 1..(uuidCtr + 1), u \in UserIDs : AckAlert(id, u)
    \/ Tick

SpecAlerts == InitNoRepo /\ [][NextAlerts]_vars

\* the spending ledger: tracker threads, engine and control plane
NextSpend ==
    \/ \E t \in Trackers, u \in UserIDs, in \in UsageInputs :
          RecordUsageBegin(t, u, in[1], in[2])
    \/ \E t \in Trackers : RecordUsageUpdate(t)
    \/ \E body \in LimitBodies : CreateSpendingLimit(body)
    \/ \E id \in LimitIDs, body \in LimitBodies : UpdateSpendingLimit(id, body)
    \/ \E u \in UserIDs, a \in SpendAmounts : RecordSpending(u, a)

SpecSpend == Init /\ [][NextSpend]_vars

NoLimits == Len(repoLimits) = 0 /\ Cardinality(DOMAIN engineLimits) = 0

\* the limits that apply to every caller
GlobalLimitBodies == {b \in LimitBodies : b.userID = ""}

\* the guard pipeline, with policies and spending limits created through the
\* control plane
NextGuard ==
    \/ \E w \in Guards, req \in GuardInputs : GuardBegin(w, req)
    \/ \E w \in Guards, outcome \in ChatOutcomes : GuardChat(w, outcome)
    \/ \E policy \in PolicyInputs :
          Cardinality(DOMAIN policies) < MaxPolicies /\ CreatePolicy(policy)
    \/ \E body \in GlobalLimitBodies : NoLimits /\ CreateSpendingLimit(body)

\* the policy engine: policies and users created and changed through the
\* control plane, requests evaluated
NextPolicy ==
    \/ \E policy \in EvalPolicyInputs :
          Cardinality(DOMAIN policies) < MaxEvalPolicies /\ CreatePolicy(policy)
    \/ \E id \in DOMAIN policies, priority \in Priorities : UpdatePolicy(id, priority)
    \/ \E req \in EvalRequests : Evaluate(req)

SpecPolicy == InitNoRepo /\ [][NextPolicy]_vars

\* rules on the provider of the request, with each condition
RuleKinds ==
    { PolicyRule("provider", "equals", Str(<<provider>>), condition) :
        provider \in {"openai", "ollama"}, condition \in {"and", "or", ""} }

\* a call of Engine.evaluateRules and what it returned
EvaluateRulesCall(rules, req) ==
    /\ calls' = Recorded(calls, [op |-> "evaluateRules", rules |-> rules, req |-> req,
                                 matched |-> evaluateRules(rules, req)])
    /\ UNCHANGED <<auditVars, spendVars, policyVars, configVars, g>>

\* rule lists evaluated directly, one call in each behaviour
NextRules ==
    \E rules \in SeqsUpTo(RuleKinds, MaxRules), req \in EvalRequests :
        calls = <<>> /\ EvaluateRulesCall(rules, req)

SpecRules == InitNoRepo /\ [][NextRules]_vars

InitDeployed ==
    /\ InitAudit
    /\ InitSpend
    /\ hasRepo \in BOOLEAN
    /\ InitGuard(Deployments)

SpecGuard == InitDeployed /\ [][NextGuard]_vars

\* the injection detector called directly, one call in each behaviour
NextDetector ==
    \/ \E messages \in SeqsUpTo(AnalyzeMessages, MaxMessages) :
          calls = <<>> /\ AnalyzeCall(messages)
    \/ \E level \in ThreatLevels :
          calls = <<>> /\ ShouldBlockCall(level)
    \/ \E detections \in SeqsUpTo(DetectionKinds, MaxDetections) :
          calls = <<>> /\ ThreatLevelCall(detections)

SpecDetector == InitDeployed /\ [][NextDetector]_vars

\* the settings service is built on the repository (router.go)
InitSettings == Init /\ hasRepo = TRUE

\* readers of the LLM settings and one updater
NextSettings ==
    \/ \E r \in Readers : GetLLMSettingsBegin(r)
    \/ \E r \in Readers : GetLLMSettingsRead(r)
    \/ \E r \in Readers : GetLLMSettingsStore(r)
    \/ UpdateLLMSettingsBegin
    \/ \E ok \in BOOLEAN : UpdateLLMSettingsSet(ok)
    \/ UpdateLLMSettingsInvalidate

SpecSettings == InitSettings /\ [][NextSettings]_vars

\* the masker called directly, one call in each behaviour
NextMasker ==
    \E messages \in SeqsUpTo({Message("user", t) : t \in Texts}, MaxMessages) :
        \E orders \in [1..Len(messages) -> PatternOrders] :
            calls = <<>> /\ MaskCall(messages, orders)

SpecMasker == InitDeployed /\ [][NextMasker]_vars

\* the deployments the client factory is called under
FactoryDeployments ==
    Deployments \cup
    { \* the stored settings name a provider the client library does not know
      Deployment([enabled |-> TRUE, blockOnDetection |-> TRUE], TRUE,
                 LLMConfig("openai", GPT4o, "k"), Settings(FALSE, "acme", GPT4o, "k3")),
      \* a local model server as default, no API key; settings with a base URL
      Deployment([enabled |-> TRUE, blockOnDetection |-> TRUE], TRUE,
                 WithBaseURL(LLMConfig("ollama", Llama, ""), "http://host:11434"),
                 WithBaseURL(Settings(FALSE, "ollama", Llama, "k3"), "http://db:11434")),
      \* an unknown default provider without an API key: no default client
      Deployment([enabled |-> TRUE, blockOnDetection |-> TRUE], TRUE,
                 LLMConfig("acme", GPT4o, ""), Settings(FALSE, "openai", GPT4o, "")) }

\* the requests GetClient is called with
ClientRequests ==
    { WithBaseURL(GuardRequest(TRUE, 0, <<Message("user", CleanText)>>,
                               provider, model, apiKey), baseURL) :
        provider \in {"", "ollama", "acme"}, model \in {<<>>, Llama},
        apiKey \in {"", "k2"}, baseURL \in {"", "http://host:11434"} }

\* the request of a GetClient call names a provider, an API key or a base URL
CarriesOverride(req) == req.provider # "" \/ req.apiKey # "" \/ req.baseURL # ""

\* a factory that layers the request over its own defaultConfig in place
DefaultConfigLayered(cfg, req) ==
    IF CarriesOverride(req) THEN RequestConfig(cfg, req) ELSE cfg

\* the factory's defaultConfig after GetClient: the per-request
\* configuration is a local value and f.defaultConfig is only read
DefaultConfigAfter(cfg, req) == cfg

\* ClientFactory.GetClient called directly
GetClientCall(req) ==
    /\ NewClientFactory(defaultConfig)
    /\ calls' = Recorded(calls, [op |-> "GetClient", req |-> req,
                                 result |-> GetClient(defaultConfig, hasRepo, dbSettings, req),
                                 \* history: the call before this one had an override
                                 afterOverride |->
                                     calls # <<>> /\ CarriesOverride(calls[1].req)])
    /\ defaultConfig' = DefaultConfigAfter(defaultConfig, req)
    /\ UNCHANGED <<auditVars, spendVars, policyVars, detector, maskerEnabled, dbSettings, svc, g>>

InitFactory ==
    /\ InitAudit
    /\ InitSpend
    /\ hasRepo \in BOOLEAN
    /\ InitGuard(FactoryDeployments)

\* the client factory called directly, any number of times
NextFactory ==
    \E req \in ClientRequests : GetClientCall(req)

SpecFactory == InitFactory /\ [][NextFactory]_vars

\* the chunks a stream delivers: no choice, or one choice
StreamChunks ==
    {<<>>} \cup {<<Choice(d, f)>> : d \in {"", "ab", "c"},
                                   f \in {NilReason, "", "stop", "length"}}

ChatStreamCall(initialized, created, chunks, failAt) ==
    /\ calls' = <<[op |-> "ChatStream", initialized |-> initialized,
                   created |-> created, chunks |-> chunks, failAt |-> failAt,
                   result |-> ChatStream(initialized, created, chunks, failAt)]>>
    /\ UNCHANGED <<auditVars, spendVars, policyVars, configVars, g>>

\* one ChatStream call on a client, over every stream and every handler
NextStream ==
    \/ /\ calls = <<>>
       /\ \E chunks \in SeqsUpTo(StreamChunks, MaxChunks), failAt \in 0..MaxChunks :
             ChatStreamCall(TRUE, TRUE, chunks, failAt)
    \/ /\ calls = <<>>
       /\ \E initialized, created \in BOOLEAN :
             /\ ~(initialized /\ created)
             /\ ChatStreamCall(initialized, created, <<>>, 0)

SpecStream == InitNoRepo /\ [][NextStream]_vars

\* the control plane creates limits and updates one; usage is recorded
\* after the update
NextLimits ==
    \/ \E body \in LimitBodies : calls = <<>> /\ CreateSpendingLimit(body)
    \/ \E id \in 1..MaxLimits, body \in LimitBodies :
          calls = <<>> /\ UpdateSpendingLimitCall(id, body)
    \/ \E t \in Trackers, u \in UserIDs, in \in UsageInputs :
          calls # <<>> /\ RecordUsageBegin(t, u, in[1], in[2])
    \/ \E t \in Trackers : RecordUsageUpdate(t)

SpecLimits == Init /\ [][NextLimits]_vars

\* the limits both implementations are given: owner and spend vary, the cap
\* is 1000
StoredLimits ==
    { [id |-> 0, userID |-> u, limitAmount |-> 1000, currentSpend |-> c, alertAt |-> 0] :
        u \in {"u1", "u2", "", "*"}, c \in {600, 1000, 1200} }

\* limits numbered in insertion order, as rows and as the engine's map
Numbered(limits) == [i \in 1..Len(limits) |-> [limits[i] EXCEPT !.id = i]]

\* Engine.RecordSpending and Tracker.RecordUsage on the same limits
RecordBothCall(limits, userID, amount) ==
    /\ calls' = <<[op |-> "RecordSpending", limits |-> Numbered(limits),
                   userID |-> userID, amount |-> amount,
                   engine |-> EngineRecordSpending(Numbered(limits), userID, amount),
                   tracker |-> RecordUsageLoop(Numbered(limits),
                                               ListSpendingLimits(Numbered(limits)),
                                               1, userID, amount)]>>
    /\ UNCHANGED <<auditVars, spendVars, policyVars, configVars, g>>

\* Engine.CheckSpendingLimit(user, 0) and Tracker.CheckLimit(user) on the
\* same limits
CheckBothCall(limits, userID) ==
    /\ calls' = <<[op |-> "CheckLimit", limits |-> Numbered(limits), userID |-> userID,
                   allowed |-> CheckSpendingLimit(Numbered(limits), userID, 0),
                   exceeded |-> CheckLimit(ListSpendingLimits(Numbered(limits)), userID)]>>
    /\ UNCHANGED <<auditVars, spendVars, policyVars, configVars, g>>

\* the engine and the tracker asked the same question once
NextAgree ==
    \/ /\ calls = <<>>
       /\ \E limits \in SeqsUpTo(StoredLimits, MaxLimits), u \in UserIDs, a \in SpendAmounts :
             RecordBothCall(limits, u, a)
    \/ /\ calls = <<>>
       /\ \E limits \in SeqsUpTo(StoredLimits, MaxLimits), u \in UserIDs :
             CheckBothCall(limits, u)

SpecAgree == InitNoRepo /\ [][NextAgree]_vars

\* ------------------------------------------------------------------------
\* Claims
\* ------------------------------------------------------------------------

\* the number of elements of sequence s that satisfy Test
CountIf(s, Test(_)) == Cardinality({i \in 1..Len(s) : Test(s[i])})

\* the guard calls that have answered a request whose body parsed
Completed == {w \in Guards : g[w].pc = "done" /\ g[w].parsed}

\* C1: a guard request whose response has allowed=false makes no upstream
\* provider call, and the steps of that request write no spending to any
\* spending limit.
C1_NoLeakOnBlock ==
    [][\A w \in Guards :
          (g'[w].parsed /\ ~g'[w].response.allowed) =>
              /\ g'[w].upstream = 0
              /\ g'[w] # g[w] =>
                    /\ \A i \in 1..Len(repoLimits) :
                          repoLimits'[i].currentSpend = repoLimits[i].currentSpend
                    /\ \A id \in DOMAIN engineLimits :
                          engineLimits'[id].currentSpend = engineLimits[id].currentSpend]_vars

\* a request blocked by the injection detector has been answered with 403
\* while a spending limit exists
C1_Blocked ==
    /\ ~NoLimits
    /\ \E w \in Completed :
          /\ ~g[w].response.allowed
          /\ g[w].status = 403
          /\ ShouldBlock(detector, g[w].response.securityReport)

IsRequestEntry(e) == e.eventType = "request"

\* C2: every completed guard request whose body parsed has appended exactly
\* one audit record with event_type=request, whether it was allowed, blocked
\* by the injection detector or ended with an upstream or configuration
\* error: the request records appended so far are as many as the completed
\* requests.
C2_OneAuditPerRequest ==
    CountIf(appended, IsRequestEntry) = Cardinality(Completed)

\* C3: when an active policy with action deny matches the request of a guard
\* call, the response has allowed=false and status 403 and the upstream
\* provider is not called.
C3_PolicyDenyBlocks ==
    \A w \in Guards :
        g[w].policyDenies =>
            /\ ~g[w].response.allowed
            /\ g[w].upstream = 0
            /\ g[w].pc = "done" => g[w].status = 403

\* C4: a guard request whose upstream call succeeded and returned usage has
\* invoked Tracker.RecordUsage by the time it is answered.
C4_UsageRecorded ==
    \A w \in Completed :
        (g[w].response.llmResponse.present /\ ~g[w].response.llmResponse.usage.nil) =>
            \E t \in Trackers : trk[t].pc # "idle"

\* C5: an audit logger of capacity N holds exactly min(n, N) entries after n
\* Log calls, and they are the n most recently appended ones, in append order.
C5_RingBound ==
    /\ Len(logs) = Min(Len(appended), MaxLogs)
    /\ logs = SubSeq(appended, Len(appended) - Len(logs) + 1, Len(appended))

\* more entries were logged than the ring holds, and the oldest one is gone
C5_Evicted ==
    /\ Len(appended) >= MaxLogs + 2
    /\ Len(logs) = MaxLogs
    /\ \A i \in 1..Len(logs) : logs[i].id # appended[1].id

\* C6: ack_alert is idempotent: once an alert is acknowledged, a later
\* ack_alert leaves acked_at and acked_by as the first call set them.
C6_AckSetOnce ==
    [][\A i \in 1..Len(alerts) :
          alerts[i].ackedAt # 0 =>
             /\ alerts'[i].ackedAt = alerts[i].ackedAt
             /\ alerts'[i].ackedBy = alerts[i].ackedBy]_vars

\* C7: current_spend of a spending limit never decreases, whatever operation
\* writes the limit (record_usage, RecordSpending, control-plane update).
C7_MonotoneSpend ==
    [][/\ \A i \in 1..Len(repoLimits) :
             repoLimits'[i].currentSpend >= repoLimits[i].currentSpend
       /\ \A id \in DOMAIN engineLimits :
             engineLimits'[id].currentSpend >= engineLimits[id].currentSpend]_vars

\* C8: spending updates are linearizable per limit: when no record_usage call
\* is in progress, every limit's current_spend is the spend it started with
\* plus the cost of every usage recorded on it (no lost update).
C8_NoLostUpdate ==
    (\A t \in Trackers : trk[t].pc # "update") =>
        \A i \in 1..Len(repoLimits) :
            repoLimits[i].currentSpend = ledger[repoLimits[i].id]

IsSpendingAlert(a) == a.type = "spending"
IsSpendingAuditEntry(e) == e.eventType = "spending_alert"

\* C9: record_usage emits one spending_alert audit entry and one spending
\* Alert on the call that takes a limit from below its alert threshold to at
\* or above it, and none on other calls.
C9_AlertOnCrossing ==
    (\A t \in Trackers : trk[t].pc # "update") =>
        /\ CountIf(alerts, IsSpendingAlert) = crossings
        /\ CountIf(appended, IsSpendingAuditEntry) = crossings

\* C10: a record_usage call that no other call overlaps adds its cost to
\* current_spend of exactly the limits whose user_id is the caller's, "" or
\* "*", and leaves every other limit as it was; with nil usage (or no
\* repository) it writes nothing.
C10_FrameEffect ==
    \A t \in Trackers :
        LET c == trk[t]
        IN (c.pc = "done" /\ c.alone) =>
              /\ Len(c.after) >= Len(c.before)
              /\ \A i \in 1..Len(c.before) :
                    c.after[i] =
                       IF /\ ~c.usageNil
                          /\ hasRepo
                          /\ c.before[i].userID \in {c.userID, "", "*"}
                         THEN [c.before[i] EXCEPT !.currentSpend = @ + c.cost]
                         ELSE c.before[i]

\* a finished call with a positive cost that found a limit of its user, a
\* "*" limit or a "" limit, and a limit of another user
C10_CallDone ==
    \E t \in Trackers :
        LET c == trk[t]
        IN /\ c.pc = "done" /\ c.alone /\ ~c.usageNil /\ c.cost > 0
           /\ \E i \in 1..Len(c.before) : c.before[i].userID \in {"*", ""}
           /\ \E i \in 1..Len(c.before) : c.before[i].userID \notin {c.userID, "", "*"}
           /\ \E i \in 1..Len(c.after) : c.after[i].currentSpend > 0

\* the latest call, when it is a call of operation op
IsCall(op) == calls # <<>> /\ calls[1].op = op

\* the stored policies that are active
ActiveOnly(pols) ==
    [id \in {i \in DOMAIN pols : pols[i].status = "active"} |-> pols[id]]

\* the active policies of call c that target its user and whose rules match
Matching(c) ==
    {id \in DOMAIN ActiveOnly(c.policies) :
        evaluatePolicy(c.users, c.policies[id], c.req).matched}

\* the outcome of an evaluation
Outcome(r) ==
    [allowed |-> r.allowed, blockedBy |-> r.blockedBy, blockReason |-> r.blockReason,
     warnings |-> r.warnings, throttled |-> r.throttled]

\* C11: a policy whose status is not active is skipped by EvaluateRequest:
\* it has no evaluation record in the result, and the result is one the
\* active policies alone can give.
C11_InactiveSkipped ==
    IsCall("EvaluateRequest") =>
        LET c == calls[1]
        IN /\ \A i \in 1..Len(c.result.evaluations) :
                 c.policies[c.result.evaluations[i].policyID].status = "active"
           /\ c.result \in EvaluateRequest(ActiveOnly(c.policies), c.users, c.req)

\* a request was evaluated while a draft policy and an active policy were
\* stored
C11_DraftStored ==
    /\ IsCall("EvaluateRequest")
    /\ \E id \in DOMAIN calls[1].policies : calls[1].policies[id].status = "draft"
    /\ Len(calls[1].result.evaluations) > 0

\* C12: the evaluations of an EvaluateRequest result are in non-decreasing
\* order of policy priority.
C12_PriorityOrder ==
    IsCall("EvaluateRequest") =>
        LET c == calls[1]
            priority(i) == c.policies[c.result.evaluations[i].policyID].priority
        IN \A i, j \in 1..Len(c.result.evaluations) : i < j => priority(i) <= priority(j)

\* C13: EvaluateRequest is deterministic: every run over the policies, users
\* and request of a call returns the result that call returned.
C13_Deterministic ==
    IsCall("EvaluateRequest") =>
        \A r \in EvaluateRequest(calls[1].policies, calls[1].users, calls[1].req) :
            r = calls[1].result

\* C14: allowed is false exactly when an active policy that matches has
\* action deny, whatever is evaluated after it; the messages of the matching
\* warn policies are the warnings; every matching policy has an evaluation.
C14_DenySticky ==
    IsCall("EvaluateRequest") =>
        LET c == calls[1]
            r == c.result
            warn == {id \in Matching(c) : c.policies[id].action = "warn"}
        IN /\ r.allowed <=> ~\E id \in Matching(c) : c.policies[id].action = "deny"
           /\ Len(r.warnings) = Cardinality(warn)
           /\ {r.warnings[i] : i \in 1..Len(r.warnings)} =
                 {evaluatePolicy(c.users, c.policies[id], c.req).message : id \in warn}
           /\ Matching(c) \subseteq {r.evaluations[i].policyID : i \in 1..Len(r.evaluations)}

\* a matched deny was evaluated before a matched warn and a matched allow
C14_DenyThenOthers ==
    /\ IsCall("EvaluateRequest")
    /\ LET e == calls[1].result.evaluations
       IN \E i, j, k \in 1..Len(e) :
             /\ i < j /\ i < k
             /\ e[i].matched /\ e[i].action = "deny"
             /\ e[j].matched /\ e[j].action = "warn"
             /\ e[k].matched /\ e[k].action = "allow"
    /\ ~calls[1].result.allowed
    /\ Len(calls[1].result.warnings) = 1

\* the stored policies are those of call c, except that the priority of
\* policies that do not match the request of c has been changed
OnlyUnmatchedMoved(c) ==
    /\ DOMAIN policies = DOMAIN c.policies
    /\ users = c.users
    /\ \A id \in DOMAIN policies :
          /\ [policies[id] EXCEPT !.priority = 0] = [c.policies[id] EXCEPT !.priority = 0]
          /\ policies[id].priority # c.policies[id].priority =>
                /\ policies[id].status = "active"
                /\ id \notin Matching(c)
    /\ \E id \in DOMAIN policies : policies[id].priority # c.policies[id].priority

\* C15: after the priority of active policies that do not match a request
\* has been changed, evaluating the request again gives the outcome it gave
\* before the change.
C15_UnmatchedOrder ==
    (IsCall("EvaluateRequest") /\ OnlyUnmatchedMoved(calls[1])) =>
        \A r \in EvaluateRequest(policies, users, calls[1].req) :
            Outcome(r) = Outcome(calls[1].result)

\* the place of a threat level in the order none < low < medium < high <
\* critical
Rank(level) ==
    CASE level = "none" -> 0
      [] level = "low" -> 1
      [] level = "medium" -> 2
      [] level = "high" -> 3
      [] level = "critical" -> 4

\* C16: the threat level of a detection list D is none if D is empty;
\* critical if a detection has type jailbreak_attempt, data_exfiltration or
\* delimiter_injection or |D| >= 3; otherwise high if the maximum confidence
\* is >= 0.85, medium if it is >= 0.70, else low.
C16_ThreatLevel ==
    IsCall("calculateThreatLevel") =>
        LET D == calls[1].detections
            confidences == {D[i].confidence : i \in 1..Len(D)}
            critical == \E i \in 1..Len(D) :
                           D[i].type \in {"jailbreak_attempt", "data_exfiltration",
                                          "delimiter_injection"}
        IN calls[1].level =
              IF D = <<>> THEN "none"
              ELSE IF critical \/ Len(D) >= 3 THEN "critical"
              ELSE IF \E x \in confidences : x >= 85 THEN "high"
              ELSE IF \E x \in confidences : x >= 70 THEN "medium"
              ELSE "low"

\* the level of three detections of which none has a critical type
C16_ThreeDetections ==
    /\ IsCall("calculateThreatLevel")
    /\ Len(calls[1].detections) = 3
    /\ \A i \in 1..3 : calls[1].detections[i].type \notin criticalTypes
    /\ calls[1].level = "critical"

\* C17: adding a detection to a detection list, at its end or at its front,
\* never lowers the threat level.
C17_LevelMonotone ==
    IsCall("calculateThreatLevel") =>
        \A d \in DetectionKinds :
            /\ Rank(calculateThreatLevel(Append(calls[1].detections, d)))
                  >= Rank(calls[1].level)
            /\ Rank(calculateThreatLevel(<<d>> \o calls[1].detections))
                  >= Rank(calls[1].level)

\* the level of a list whose level is high and to which a detection of low
\* confidence can be added
C17_HighLevel ==
    /\ IsCall("calculateThreatLevel")
    /\ calls[1].level = "high"
    /\ Len(calls[1].detections) = 1

\* C18: ShouldBlock is true exactly when blockOnDetection is enabled and the
\* threat level of the report is high or critical.
C18_BlockRule ==
    IsCall("ShouldBlock") =>
        (calls[1].blocked <=>
            (detector.blockOnDetection /\ calls[1].report.threatLevel \in {"high", "critical"}))

\* a report of level critical was not blocked because blockOnDetection is
\* disabled
C18_NotBlocked ==
    /\ IsCall("ShouldBlock")
    /\ ~detector.blockOnDetection
    /\ calls[1].report.threatLevel = "critical"
    /\ ~calls[1].blocked

\* the messages of call c with role system
SystemMessages(c) == {i \in 1..Len(c.messages) : c.messages[i].role = "system"}

HasInjection(content) ==
    content.regex # <<>> \/ content.keywords # <<>> \/ content.suspicious

\* C19: no detection of an Analyze report has the location of a message with
\* role system, and when only system messages hold injection content the
\* report has injection_detected = false and threat level none.
C19_SystemExempt ==
    IsCall("Analyze") =>
        LET c == calls[1]
        IN /\ \A k \in 1..Len(c.report.detections), i \in SystemMessages(c) :
                 c.report.detections[k].location # formatLocation(i - 1, "system")
           /\ (\A i \in 1..Len(c.messages) :
                  HasInjection(c.messages[i].content) => i \in SystemMessages(c))
                 => (~c.report.injectionDetected /\ c.report.threatLevel = "none")

\* an enabled detector analysed a system message that holds injection
\* content, followed by a user message that has a detection
C19_SystemInjection ==
    /\ IsCall("Analyze")
    /\ detector.enabled
    /\ Len(calls[1].messages) = 2
    /\ calls[1].messages[1].role = "system"
    /\ HasInjection(calls[1].messages[1].content)
    /\ calls[1].messages[2].role = "user"
    /\ calls[1].report.injectionDetected

\* a settings provider is attached and returns a configuration with an API key
SettingsUsable == hasRepo /\ ~dbSettings.err /\ dbSettings.apiKey # ""

\* the client a GetClient call returned is of this kind, with this owned flag
Returned(c, kind, owned) ==
    c.result.err = "" /\ c.result.client.kind = kind /\ c.result.client.shouldClose = owned

\* the GetClient call failed with this error and returned no client
Failed(c, err) ==
    c.result.err = err /\ c.result.client.kind = "none" /\ ~c.result.client.shouldClose

NoClientConfigured == "no LLM client configured and no provider specified in request"

C21_ClosedOnce ==
    \A w \in Guards :
        /\ g[w].pc # "done" => g[w].closes = 0
        /\ g[w].pc = "done" =>
              g[w].closes = IF g[w].client.kind \in {"request", "settings"} THEN 1 ELSE 0
        /\ g[w].client.kind \in {"request", "settings"} <=> g[w].client.shouldClose

\* a request whose per-request client failed upstream has ended
C21_ClosedAfterError ==
    \E w \in Guards :
        /\ g[w].pc = "done"
        /\ g[w].client.kind = "request"
        /\ g[w].response.error # ""
        /\ g[w].closes = 1

\* C22: a per-request override leaves no state behind: after any sequence
\* of GetClient calls the factory's default configuration, and with it its
\* default client, are those it started with, and a request without
\* overrides gets the client the factory would have returned for it as its
\* first call.
C22_NoStateLeft ==
    \A dep \in FactoryDeployments :
        (defaultConfig = dep.defaultConfig /\ dbSettings = dep.dbSettings) =>
            [](/\ defaultConfig = dep.defaultConfig
               /\ (IsCall("GetClient") /\ ~CarriesOverride(calls[1].req)) =>
                     calls[1].result =
                        GetClient(dep.defaultConfig, hasRepo, dep.dbSettings, calls[1].req))

\* right after a call with an override, a request without overrides got the
\* default client
C22_DefaultAfterOverride ==
    /\ IsCall("GetClient")
    /\ calls[1].afterOverride
    /\ ~CarriesOverride(calls[1].req)
    /\ Returned(calls[1], "default", FALSE)

\* C23: the settings cache is invalidate-on-write: a GetLLMSettings call
\* that started after an UpdateLLMSettings call returned nil returns the
\* values that update wrote, or those of a later update, also when cache
\* fills ran concurrently with the update.
C23_NoStaleRead ==
    \A r \in Readers :
        svc.rd[r].pc = "returned" =>
            /\ svc.rd[r].settings.provider >= svc.rd[r].after
            /\ svc.rd[r].settings.model >= svc.rd[r].after

\* the entries of a store that satisfy every predicate of the query, oldest
\* first
MatchingAll(ls, query) ==
    SelectSeq(ls, LAMBDA e :
        /\ query.startTime # 0 => e.ts >= query.startTime
        /\ query.endTime # 0 => e.ts <= query.endTime
        /\ query.status # "" => e.status = query.status
        /\ query.eventTypes # {} => e.eventType \in query.eventTypes)

\* what the pagination contract gives for a Query call: the call returns,
\* total counts the matching entries, and the page holds the matching
\* entries newest first from the offset-th newest on, min(limit, max(total -
\* offset, 0)) of them
PageAsSpecified(c) ==
    LET matching == MatchingAll(c.logs, c.query)
        total == Len(matching)
        limit == IF c.query.limit <= 0 THEN 50 ELSE c.query.limit
        n == Min(limit, Max(total - c.query.offset, 0))
    IN /\ ~c.out.panic
       /\ c.out.total = total
       /\ Len(c.out.result) = n
       /\ \A k \in 1..n : c.out.result[k] = matching[total - c.query.offset - k + 1]

\* C24: audit query pagination: total is the number of entries matching all
\* filter predicates before paging; the page lists the matching entries
\* newest first, skipping the offset newest ones, and holds exactly
\* min(limit, max(total - offset, 0)) entries (limit <= 0 means 50).
C24_Pagination == IsCall("Query") => PageAsSpecified(calls[1])

\* the pagination contract for the queries whose offset is not negative
C24_PaginationFromZero ==
    (IsCall("Query") /\ calls[1].query.offset >= 0) => PageAsSpecified(calls[1])

\* C25: when GetClient fails or client.Chat fails for a request that is not
\* blocked, the response has status 200, allowed = true, the error text and
\* no LLM response, and its security report, PII report and masked messages
\* are those of the request's messages, as for a request whose upstream
\* call succeeded.
C25_ErrorKeepsReports ==
    \A w \in Guards :
        (g[w].pc = "done" /\ g[w].status = 200) =>
            LET r == g[w].response
                masked == Mask(maskerEnabled, g[w].input)
                failed == \/ NewClientFactory(defaultConfig) /\ g[w].client.kind = "none"
                          \/ g[w].upstream > 0 /\ ~r.llmResponse.present
            IN /\ r.allowed
               /\ failed <=> r.error # ""
               /\ r.error # "" => ~r.llmResponse.present
               /\ r.securityReport = Analyze(detector, g[w].input)
               /\ r.piiReport = [piiDetected |-> masked.piiDetected,
                                 piiCount |-> masked.piiCount]
               /\ g[w].messages = masked.messages

\* a request with PII in its messages was answered after client.Chat failed
C25_UpstreamFailed ==
    \E w \in Guards :
        /\ g[w].pc = "done"
        /\ g[w].status = 200
        /\ g[w].upstream > 0
        /\ g[w].response.error # ""
        /\ g[w].response.piiReport.piiDetected

\* C26: AckAlert with an id that matches no alert returns success and
\* leaves the alert list unchanged.
C26_UnknownAck ==
    [][(acks' # acks /\ FirstAlertWithID(alerts, calls'[1].alertID) = 0) =>
          (alerts' = alerts /\ calls'[1].err = "")]_vars

\* the last AckAlert call named an id that no alert of a non-empty list has
C26_UnknownAcked ==
    /\ IsCall("AckAlert")
    /\ alerts # <<>>
    /\ \A i \in 1..Len(alerts) : alerts[i].id # calls[1].alertID
    /\ calls[1].err = ""

\* C27: request IDs are unique within a process lifetime: no two requests
\* are answered under the same request_id and no two audit entries of
\* requests carry the same request_id, also when callers supply the
\* request_id themselves.
C27_UniqueRequestIDs ==
    /\ \A w1, w2 \in Guards :
          (w1 # w2 /\ g[w1].pc = "done" /\ g[w2].pc = "done"
                   /\ g[w1].parsed /\ g[w2].parsed)
             => g[w1].requestID # g[w2].requestID
    /\ \A i, j \in 1..Len(appended) :
          (i # j /\ IsRequestEntry(appended[i]) /\ IsRequestEntry(appended[j]))
             => appended[i].requestID # appended[j].requestID

\* text t occurs in text s
Occurs(t, s) ==
    \E p \in 1..(Len(s) - Len(t) + 1) : SubSeq(s, p, p + Len(t) - 1) = t

\* C28: for every Mask call the report has pii_count = len(pii_types),
\* masked_count = pii_count and pii_detected iff pii_count > 0, and the
\* masked string of every recorded match occurs in the masked message at the
\* match's location; a disabled masker returns the messages unchanged with
\* an empty report.
C28_MaskReport ==
    IsCall("Mask") =>
        LET c == calls[1]
            report == c.out.report
        IN /\ report.piiCount = Len(report.piiTypes)
           /\ report.maskedCount = report.piiCount
           /\ report.piiDetected <=> report.piiCount > 0
           /\ \A k \in 1..Len(report.piiTypes) :
                 \E i \in 1..Len(c.out.messages) :
                    /\ formatLocation(i - 1, c.out.messages[i].role)
                          = report.piiTypes[k].location
                    /\ Occurs(report.piiTypes[k].maskedValue, c.out.messages[i].content)
           /\ ~maskerEnabled => (c.out.messages = c.messages /\ report.piiCount = 0)

\* the counts and the disabled masker alone
C28_Counts ==
    IsCall("Mask") =>
        LET report == calls[1].out.report
        IN /\ report.piiCount = Len(report.piiTypes)
           /\ report.maskedCount = report.piiCount
           /\ report.piiDetected <=> report.piiCount > 0
           /\ ~maskerEnabled => (calls[1].out.messages = calls[1].messages
                                   /\ report.piiCount = 0)

\* C29: no audit record appended by the request pipeline has, in its
\* details, an original PII value, a raw API key or message content: the
\* details hold only the action name, flags, counts and the threat level.
C29_DetailsCategorical ==
    \A i \in 1..Len(appended) :
        IsRequestEntry(appended[i]) =>
            LET d == appended[i].details
            IN /\ DOMAIN d = {"action", "injection_detected", "threat_level",
                              "detection_count", "has_detection_count",
                              "pii_detected", "pii_count"}
               /\ d.action \in {"guard", "analyze", "mask", "detect"}
               /\ d.threat_level \in ThreatLevels
               /\ d.injection_detected \in BOOLEAN
               /\ d.has_detection_count \in BOOLEAN
               /\ d.pii_detected \in BOOLEAN
               /\ d.detection_count \in Nat
               /\ d.pii_count \in Nat

\* the audit record of a request that carried an API key and a message with
\* PII has been appended
C29_SensitiveRequestAudited ==
    \E w \in Guards, i \in 1..Len(appended) :
        /\ g[w].pc = "done"
        /\ g[w].client.kind = "request"
        /\ g[w].client.cfg.apiKey # ""
        /\ appended[i].requestID = g[w].requestID
        /\ IsRequestEntry(appended[i])
        /\ appended[i].details.pii_detected

\* C30: rule-list evaluation: an empty rule list matches; a non-empty list
\* does not match when its first rule does not match; among the following
\* rules the first one that is an "and" rule that does not match or an "or"
\* rule that matches decides, false for the former and true for the latter;
\* when there is none the list matches.
C30_RuleList ==
    IsCall("evaluateRules") =>
        LET rules == calls[1].rules
            m == [i \in 1..Len(rules) |-> evaluateRule(rules[i], calls[1].req)]
            deciding == {i \in 2..Len(rules) :
                            \/ rules[i].condition = "and" /\ ~m[i]
                            \/ rules[i].condition = "or" /\ m[i]}
            first == CHOOSE i \in deciding : \A j \in deciding : i <= j
        IN calls[1].matched =
              IF rules = <<>> THEN TRUE
              ELSE IF ~m[1] THEN FALSE
              ELSE IF deciding = {} THEN TRUE
              ELSE rules[first].condition = "or"

\* a list matched at an "or" rule although an "and" rule after it does not
\* match
C30_OrDecided ==
    /\ IsCall("evaluateRules")
    /\ Len(calls[1].rules) = 3
    /\ calls[1].rules[2].condition = "or"
    /\ evaluateRule(calls[1].rules[2], calls[1].req)
    /\ calls[1].rules[3].condition = "and"
    /\ ~evaluateRule(calls[1].rules[3], calls[1].req)
    /\ calls[1].matched

\* the policy ids of the evaluations of result r, in order
EvaluatedIDs(r) == [i \in 1..Len(r.evaluations) |-> r.evaluations[i].policyID]

\* C31 as stated: a PolicyEvaluation is recorded only for a policy that
\* matched: every entry of evaluations has matched = true, and the entries
\* are those of the matching active policies.
C31_OnlyMatchedRecorded ==
    IsCall("EvaluateRequest") =>
        LET r == calls[1].result
        IN /\ \A i \in 1..Len(r.evaluations) : r.evaluations[i].matched
           /\ {EvaluatedIDs(r)[i] : i \in 1..Len(r.evaluations)} = Matching(calls[1])

\* C31: EvaluateRequest records one PolicyEvaluation for every active
\* policy, matched or not: each active policy has exactly one entry, and the
\* entry's matched flag is true exactly when the policy targets the user and
\* its rules match; an unmatched entry carries no message.
C31_EveryActiveRecorded ==
    IsCall("EvaluateRequest") =>
        LET c == calls[1]
            r == c.result
            n == Len(r.evaluations)
        IN /\ n = Cardinality(DOMAIN ActiveOnly(c.policies))
           /\ {EvaluatedIDs(r)[i] : i \in 1..n} = DOMAIN ActiveOnly(c.policies)
           /\ \A i \in 1..n :
                 /\ r.evaluations[i].matched <=> EvaluatedIDs(r)[i] \in Matching(c)
                 /\ ~r.evaluations[i].matched => r.evaluations[i].message = ""

\* an evaluation that recorded an active policy which did not match
C31_UnmatchedRecorded ==
    /\ IsCall("EvaluateRequest")
    /\ \E i \in 1..Len(calls[1].result.evaluations) :
          ~calls[1].result.evaluations[i].matched
    /\ \E i \in 1..Len(calls[1].result.evaluations) :
          calls[1].result.evaluations[i].matched


\* the number of Log calls of thread t that have stored their entry
Stored(t) ==
    lg.th[t].started - (IF lg.th[t].pc \in {"fill", "read", "write"} THEN 1 ELSE 0)

\* the positions of the store that hold the k-th entry of thread t
PositionsOf(ls, t, k) ==
    {i \in 1..Len(ls) : ls[i].action = t /\ ls[i].requestID = k}

\* C32: audit appends are serialized under the lock: while the Log calls
\* total at most maxLogs entries, the store holds every logged entry exactly
\* once and nothing else; the entries of one thread appear in that thread's
\* call order with non-decreasing timestamps; and a concurrent Query never
\* sees a store longer than maxLogs or an entry that is not a completely
\* filled logged entry.
C32_Serialized ==
    /\ Len(appended) <= MaxLogs =>
          /\ \A t \in LogThreads : \A k \in 1..Stored(t) :
                Cardinality(PositionsOf(logs, t, k)) = 1
          /\ \A i \in 1..Len(logs) :
                logs[i].action \in LogThreads /\ logs[i].requestID \in 1..Stored(logs[i].action)
    /\ \A i, j \in 1..Len(logs) :
          (i < j /\ logs[i].action = logs[j].action) =>
              /\ logs[i].requestID < logs[j].requestID
              /\ logs[i].ts <= logs[j].ts
    /\ \A q \in QueryThreads :
          LET seen == lg.q[q].seen
          IN /\ Len(seen) <= MaxLogs
             /\ \A i \in 1..Len(seen) :
                   /\ seen[i].id # 0 /\ seen[i].ts # 0
                   /\ \E j \in 1..Len(appended) : appended[j] = seen[i]

\* both threads have logged, maxLogs entries in total, and a Query that
\* ran between their calls saw the entries of both
C32_InterleavedLogs ==
    /\ Len(appended) = MaxLogs
    /\ \A t \in LogThreads : Stored(t) >= 1
    /\ \E q \in QueryThreads :
          {lg.q[q].seen[i].action : i \in 1..Len(lg.q[q].seen)} = LogThreads
    /\ \E t \in LogThreads : lg.mu.writer = t /\ lg.th[t].pc = "fill"


\* the non-empty deltas of the first choices of a stream, in arrival order
Deltas(chunks) ==
    LET withDelta == SelectSeq(chunks, LAMBDA ch : Len(ch) > 0 /\ ch[1].delta # "")
    IN [i \in 1..Len(withDelta) |-> withDelta[i][1].delta]

\* the concatenation of a sequence of strings
RECURSIVE Concat(_)
Concat(ss) == IF ss = <<>> THEN "" ELSE Head(ss) \o Concat(Tail(ss))

\* the last non-empty finish reason of a stream, "" when there is none
LastFinishReason(chunks) ==
    LET at == {i \in 1..Len(chunks) :
                 Len(chunks[i]) > 0 /\ chunks[i][1].finishReason \notin {NilReason, ""}}
    IN IF at = {} THEN ""
       ELSE chunks[CHOOSE i \in at : \A j \in at : j <= i][1].finishReason

\* C33: on a stream that was opened, ChatStream hands each non-empty delta
\* to the handler once, in arrival order; when the handler never fails the
\* call returns the concatenation of those deltas with the last non-empty
\* finish reason; when the handler fails on its n-th call, exactly the first
\* n deltas were handed over and the call returns that error and no response.
C33_ChatStream ==
    (IsCall("ChatStream") /\ calls[1].initialized /\ calls[1].created) =>
        LET c == calls[1]
            ds == Deltas(c.chunks)
        IN IF c.failAt = 0 \/ c.failAt > Len(ds)
             THEN /\ c.result.delivered = ds
                  /\ c.result.err = ""
                  /\ c.result.response.present
                  /\ c.result.response.content = Concat(ds)
                  /\ c.result.response.finishReason = LastFinishReason(c.chunks)
             ELSE /\ c.result.delivered = SubSeq(ds, 1, c.failAt)
                  /\ c.result.err = HandlerError
                  /\ ~c.result.response.present

\* a stream whose handler failed on a delta that was followed by another
C33_HandlerFailedMidStream ==
    /\ IsCall("ChatStream")
    /\ calls[1].result.err = HandlerError
    /\ Len(calls[1].result.delivered) = 2
    /\ Len(Deltas(calls[1].chunks)) = 3

\* a stream that ended normally after two deltas and two finish reasons
C33_StreamCompleted ==
    /\ IsCall("ChatStream")
    /\ calls[1].result.response.present
    /\ calls[1].result.response.content = "abc"
    /\ calls[1].result.response.finishReason = "length"
    /\ \E i \in 1..Len(calls[1].chunks) :
          Len(calls[1].chunks[i]) > 0 /\ calls[1].chunks[i][1].finishReason = "stop"


\* C34: Query returns a well-formed page for every integer offset and limit
\* the query string can carry, a negative offset and an empty store
\* included: the call does not fault, the page holds at most limit entries
\* (50 when limit <= 0), and every entry of the page is an entry of the store.
C34_WellFormedPage ==
    IsCall("Query") =>
        LET c == calls[1]
            limit == IF c.query.limit <= 0 THEN DefaultLimit ELSE c.query.limit
        IN /\ ~c.out.panic
           /\ Len(c.out.result) <= limit
           /\ \A k \in 1..Len(c.out.result) :
                 \E i \in 1..Len(c.logs) : c.logs[i] = c.out.result[k]

\* the page is well formed whenever the offset is not negative
C34_WellFormedFromZero ==
    (IsCall("Query") /\ calls[1].query.offset >= 0) =>
        LET c == calls[1]
            limit == IF c.query.limit <= 0 THEN DefaultLimit ELSE c.query.limit
        IN /\ ~c.out.panic
           /\ Len(c.out.result) <= limit
           /\ \A k \in 1..Len(c.out.result) :
                 \E i \in 1..Len(c.logs) : c.logs[i] = c.out.result[k]


\* C35: the report's blocked_reason is populated only for a request that is
\* blocked: the report Analyze returns has a non-empty blockedReason exactly
\* when ShouldBlock on that report is true.
C35_ReasonIffBlocked ==
    IsCall("Analyze") =>
        (calls[1].report.blockedReason # "" <=> ShouldBlock(detector, calls[1].report))

\* every report that ShouldBlock blocks carries a blocked reason
C35_BlockedHasReason ==
    IsCall("Analyze") =>
        (ShouldBlock(detector, calls[1].report) => calls[1].report.blockedReason # "")


\* limit l is what the update body asked for; its spend may have grown since
UpdatedAs(l, body) ==
    /\ l.userID = body.userID
    /\ l.limitAmount = body.limitAmount
    /\ l.alertAt = body.alertAt
    /\ l.currentSpend >= body.currentSpend

\* what C36 asks of a deployment after an update of a limit that Get finds
OneStore ==
    /\ \A id \in 1..uuidCtr :
          GetSpendingLimit(hasRepo, repoLimits, engineLimits, id) # <<>>
    /\ (IsCall("UpdateSpendingLimit") /\ calls[1].found) =>
          LET c == calls[1]
              got == GetSpendingLimit(hasRepo, repoLimits, engineLimits, c.id)
          IN /\ c.status = 200
             /\ Len(got) = 1 /\ UpdatedAs(got[1], c.body)
             /\ \A t \in Trackers :
                   (hasRepo /\ trk[t].pc \in {"update", "done"} /\ ~trk[t].usageNil) =>
                       \E k \in 1..Len(trk[t].limits) :
                           /\ trk[t].limits[k].id = c.id
                           /\ UpdatedAs(trk[t].limits[k], c.body)

\* C36: the control-plane spending-limit operations act on one store, with
\* and without a repository: every created limit is found by Get, an update
\* of a limit that Get finds succeeds, and the updated limit is what later
\* Get returns and what a later record_usage reads.
C36_OneStore == OneStore

\* without a repository the control plane does act on one store
C36_OneStoreInMemory == ~hasRepo => OneStore


\* C37: UpdateLLMSettings is all-or-nothing for readers: a GetLLMSettings
\* call that starts after an update returned an error part-way through its
\* writes returns settings that are entirely those of one update (or
\* entirely the initial ones), never the provider of one and the model of
\* another.
C37_AllOrNothing ==
    \A r \in Readers :
        (svc.rd[r].pc = "returned" /\ svc.rd[r].failed > 0) =>
            svc.rd[r].settings.provider = svc.rd[r].settings.model


\* the engine and the tracker left the same spend on every limit
SameSpend(c) ==
    \A i \in 1..Len(c.limits) : c.engine[i].currentSpend = c.tracker[i].currentSpend

\* C38: the two spending-limit implementations agree: on the same limits and
\* the same user, Engine.RecordSpending adds the amount to the same limits
\* as Tracker.RecordUsage (the user's and the global ones), and
\* Engine.CheckSpendingLimit(user, 0) refuses exactly when
\* Tracker.CheckLimit(user) reports the limit as exceeded.
C38_Agree ==
    /\ IsCall("RecordSpending") => SameSpend(calls[1])
    /\ IsCall("CheckLimit") => (~calls[1].allowed <=> calls[1].exceeded)

\* the two agree on limits owned by a user whose spend is not at the cap
C38_AgreeOnUserLimits ==
    LET owned(c) == \A i \in 1..Len(c.limits) :
                       /\ c.limits[i].userID \notin {"", "*"}
                       /\ c.limits[i].currentSpend # c.limits[i].limitAmount
    IN /\ (IsCall("RecordSpending") /\ owned(calls[1])) => SameSpend(calls[1])
       /\ (IsCall("CheckLimit") /\ owned(calls[1])) =>
              (~calls[1].allowed <=> calls[1].exceeded)

\* the record step alone disagrees
C38_RecordAgrees == IsCall("RecordSpending") => SameSpend(calls[1])

\* the check step alone disagrees
C38_CheckAgrees == IsCall("CheckLimit") => (~calls[1].allowed <=> calls[1].exceeded)


====
